---- MODULE Spec2Model ----
(***************************************************************************)
(* A model of the operation-coalescing and deduplication engine of the     *)
(* lix-cache TypeScript SDK (lix-cache-sdk/src/client.ts) together with    *)
(* the batch endpoint of the cache server it talks to                      *)
(* (lix_cache_api, Router, POST /cache/batch).                             *)
(*                                                                         *)
(* JavaScript runs the client single-threaded: every action below is one   *)
(* synchronous run of client code (an API call, a microtask, the           *)
(* continuation of an await), or one step of the remote store.             *)
(***************************************************************************)
EXTENDS Naturals, Sequences, FiniteSets

\* ------------------------------------------------------------------ bounds
\* Number of invocations the application makes in a run (get, set, delete,
\* remember, rememberAll), for each specification below: the engine alone,
\* remember with plain reads, rememberAll, both side by side,
\* Collection.rememberAll, and the wrappers with a schema.
MaxCalls == 3
MaxRemember == 3
MaxRememberAll == 3
MaxSingleFlight == 2
MaxCollection == 2
MaxTyped == 3
\* Invocations made on each of two LixCache instances.
MaxInstanceCalls == 2
\* Invocations of remember with one fallback per key, and of delete.
MaxPerKey == 5
\* Invocations an application makes one after another, awaiting each.
MaxSequential == 3
\* Invocations of rememberAll whose results are looked up with getBy, and the
\* length of the lists their fallback returns.
MaxGetBy == 2
MaxItems == 3
\* The largest maxRetries of the HttpClient configuration.
MaxRetries == 3

\* ------------------------------------------------------------------ values
\* Values: the JSON values the application writes; OldValue: the value the
\* store already holds for one key at the start.  Null and Undef are
\* JavaScript's null and undefined; Nil is the store's "no entry"
\* (Cachex.get -> {:ok, nil}).
Values == {"v2"}
OldValue == "v1"
Null == "null"
Undef == "undefined"
Nil == "nil"

\* Keys are strings; a string is modelled as the sequence of its parts so that
\* concatenation (prefix + id) and starts_with are computed, not assumed.
Keys == {<<"k1">>, <<"k2">>}
\* The list prefixes rememberAll is called with, the items a fallback can
\* return, and the keys rememberAll derives from them.
Prefixes == {<<"p:">>}
ItemA == "item a"
ItemB == "item b"
Items == {ItemA, ItemB}
ProducerLists == {<<>>, <<ItemA>>, <<ItemA, ItemB>>}
\* getKey of the options: (item) => item.id.
getKey(item) == IF item = ItemA THEN "a" ELSE "b"
\* `${prefix}${getKey(item)}`, client.ts:725 and 742.
ItemKey(prefix, item) == prefix \o <<getKey(item)>>
\* `${prefix}__list__`, client.ts:696.
listMarkerKey(prefix) == prefix \o <<"__list__">>
\* Every key of the store.
AllKeys == Keys \cup {ItemKey(p, i) : p \in Prefixes, i \in Items}
                \cup {listMarkerKey(p) : p \in Prefixes}

\* ttl option of set: NoTtl stands for an omitted ttl (undefined); so for the
\* listTTL option of rememberAll, which is either omitted or positive here.
NoTtl == 0
TTLs == {NoTtl, 1}

\* The error http.post throws when the transport fails (a timeout here; a
\* connection error is handled by the same catch).
TransportErrors == {"LixTimeoutError"}
\* Error thrown by http.post for an HTTP 500 answer.
ServerError == "LixServerError"
\* What a fallback returns (a value, possibly null) or throws.
ProducerValues == Values \cup {Null}
ProducerError == "ProducerError"

VARIABLES
    batchQueue,      \* client.ts:44  pending operations with their callbacks
    batchScheduled,  \* client.ts:49
    microtasks,      \* number of flushBatch microtasks queued by queueMicrotask
    exchanges,       \* every POST /cache/batch made by flushBatch, in order
    calls,           \* every get/set/delete invocation and its promise
    store,           \* the remote cache: key -> [val, ttl]
    absent,          \* how the wire carries the value of a missing key
    rememberPromises,    \* client.ts:52  key -> in-flight remember sequence
    rememberAllPromises, \* client.ts:55  prefix -> in-flight rememberAll sequence
    seqs,            \* every remember/rememberAll sequence (the async closure)
    rcalls,          \* every remember/rememberAll invocation
    budget,          \* the number of invocations the application makes
    other,           \* the fields of the other LixCache instance (client.ts:43-55)
    request          \* one HttpClient.request with its retries (part_009:71-120)

engineVars == <<batchQueue, batchScheduled, microtasks, calls>>
netVars == <<exchanges, store, absent, budget, other, request>>
remVars == <<rememberPromises, rememberAllPromises, seqs, rcalls>>
vars == <<batchQueue, batchScheduled, microtasks, exchanges, calls, store, absent,
          rememberPromises, rememberAllPromises, seqs, rcalls, budget, other, request>>


\* The fields of a LixCache instance after construction (client.ts:43-55),
\* with the requests and invocations that belong to it.
NewInstance(id) ==
    [id |-> id, batchQueue |-> <<>>, batchScheduled |-> FALSE, microtasks |-> 0,
     exchanges |-> <<>>, calls |-> <<>>,
     rememberPromises |-> [k \in Keys |-> 0],
     rememberAllPromises |-> [p \in Prefixes |-> 0],
     seqs |-> <<>>, rcalls |-> <<>>]

\* The fields of the instance that runs, as the other instance holds them
\* when it does not.
InstanceFields ==
    [id |-> 3 - other.id, batchQueue |-> batchQueue, batchScheduled |-> batchScheduled,
     microtasks |-> microtasks, exchanges |-> exchanges, calls |-> calls,
     rememberPromises |-> rememberPromises,
     rememberAllPromises |-> rememberAllPromises,
     seqs |-> seqs, rcalls |-> rcalls]

\* A promise: pending, or settled once with a value or an error.
Pending == [st |-> "pending", res |-> Undef]
Resolved(v) == [st |-> "resolved", res |-> v]
Rejected(e) == [st |-> "rejected", res |-> e]

\* The number of the batch cycle an operation enqueued now belongs to: the
\* cycle ends with the next flush that sends a request.
CurrentCycle == Len(exchanges) + 1

\* by: the sequence that made the call, 0 for a call of the application.
NewCall(op, key, value, ttl, by) ==
    [op |-> op, key |-> key, value |-> value, ttl |-> ttl, by |-> by,
     cyc |-> CurrentCycle, promise |-> Pending]

\* A queue entry: the operation and its resolve/reject pair.  The pair is the
\* list of the promises it settles, in the order the wrappers call them; conv
\* tells whether that resolve converts undefined to null (client.ts:242-245).
Operation(op, key, value, ttl) == [op |-> op, key |-> key, value |-> value, ttl |-> ttl]
Callback(id, conv) == [id |-> id, conv |-> conv]

\* --------------------------------------------------------------- scheduleBatch
\* scheduleBatch (client.ts:84-91): the flag and the queued microtasks after it.
scheduleBatchFlag(scheduled) == TRUE
\* A scheduleBatch that queues a microtask on every call.
scheduleBatchTasksAlways(scheduled, tasks) == tasks + 1

scheduleBatchTasks(scheduled, tasks) == IF scheduled THEN tasks ELSE tasks + 1

\* A set that joins a queued set of the same key and value.
setQueueMerged(queue, id, key, value, ttl) ==
    LET same == {i \in DOMAIN queue :
                    queue[i].operation = [op |-> "set", key |-> key,
                                          value |-> value, ttl |-> ttl]}
    IN  IF same # {}
        THEN [queue EXCEPT ![CHOOSE i \in same : TRUE].cbs =
                               Append(@, [id |-> id, conv |-> FALSE])]
        ELSE Append(queue, [operation |-> [op |-> "set", key |-> key,
                                           value |-> value, ttl |-> ttl],
                            cbs |-> <<[id |-> id, conv |-> FALSE]>>])

\* ------------------------------------------------------------------------ set
\* set (client.ts:158-175): push, then scheduleBatch.
setQueue(queue, id, key, value, ttl) ==
    Append(queue, [operation |-> Operation("set", key, value, ttl),
                   cbs |-> <<Callback(id, FALSE)>>])

\* --------------------------------------------------------------------- delete
\* delete (client.ts:273-288): push, then scheduleBatch.
deleteQueue(queue, id, key) ==
    Append(queue, [operation |-> Operation("delete", key, Undef, NoTtl),
                   cbs |-> <<Callback(id, FALSE)>>])

\* ------------------------------------------------------------------------ get
\* batchQueue.find (client.ts:213-215): index of the first queued get of key,
\* 0 when there is none.
FindGet(queue, key) ==
    LET hits == {i \in DOMAIN queue :
                    queue[i].operation.op = "get" /\ queue[i].operation.key = key}
    IN  IF hits = {} THEN 0 ELSE CHOOSE i \in hits : \A j \in hits : i <= j

\* get (client.ts:211-252): attach to the queued get of the same key if there
\* is one (the wrappers call the original callbacks first), else push.
getQueue(queue, id, key) ==
    LET existing == FindGet(queue, key)
    IN  IF existing # 0
        THEN [queue EXCEPT ![existing].cbs = Append(@, Callback(id, FALSE))]
        ELSE Append(queue, [operation |-> Operation("get", key, Undef, NoTtl),
                            cbs |-> <<Callback(id, TRUE)>>])

\* A get that never calls scheduleBatch.
getSchedulesNever(queue, key) == FALSE

\* get calls scheduleBatch only on the push path.
getSchedules(queue, key) == FindGet(queue, key) = 0

\* -------------------------------------------------------------- API actions
\* The effect of one invocation on the engine, made by the application or by
\* a remember/rememberAll sequence.
setCall(key, value, ttl, by) ==
    /\ calls' = Append(calls, NewCall("set", key, value, ttl, by))
    /\ batchQueue' = setQueue(batchQueue, Len(calls) + 1, key, value, ttl)
    /\ batchScheduled' = scheduleBatchFlag(batchScheduled)
    /\ microtasks' = scheduleBatchTasks(batchScheduled, microtasks)

deleteCall(key, by) ==
    /\ calls' = Append(calls, NewCall("delete", key, Undef, NoTtl, by))
    /\ batchQueue' = deleteQueue(batchQueue, Len(calls) + 1, key)
    /\ batchScheduled' = scheduleBatchFlag(batchScheduled)
    /\ microtasks' = scheduleBatchTasks(batchScheduled, microtasks)

getCall(key, by) ==
    /\ calls' = Append(calls, NewCall("get", key, Undef, NoTtl, by))
    /\ batchQueue' = getQueue(batchQueue, Len(calls) + 1, key)
    /\ IF getSchedules(batchQueue, key)
       THEN /\ batchScheduled' = scheduleBatchFlag(batchScheduled)
            /\ microtasks' = scheduleBatchTasks(batchScheduled, microtasks)
       ELSE UNCHANGED <<batchScheduled, microtasks>>

\* Invocations by the application.
AppCalls == {id \in DOMAIN calls : calls[id].by = 0}
CanCall == Len(rcalls) + Cardinality(AppCalls) < budget

set(key, value, ttl) ==
    /\ CanCall
    /\ setCall(key, value, ttl, 0)
    /\ UNCHANGED <<netVars, remVars>>

delete(key) ==
    /\ CanCall
    /\ deleteCall(key, 0)
    /\ UNCHANGED <<netVars, remVars>>

get(key) ==
    /\ CanCall
    /\ getCall(key, 0)
    /\ UNCHANGED <<netVars, remVars>>


\* ----------------------------------------------------------------- flushBatch
\* A flush that takes only the head of the queue (splice(0, 1)).
flushBatchFirstOnly ==
    /\ microtasks > 0
    /\ microtasks' = microtasks - 1
    /\ batchScheduled' = FALSE
    /\ IF Len(batchQueue) = 0
       THEN UNCHANGED <<batchQueue, exchanges>>
       ELSE /\ exchanges' = Append(exchanges,
                  [queue |-> <<Head(batchQueue)>>, status |-> "inflight",
                   error |-> Undef, failedAt |-> 0, results |-> <<>>])
            /\ batchQueue' = Tail(batchQueue)
    /\ UNCHANGED <<calls, store, absent, budget, other, request, remVars>>

\* A flush that sends the whole queue but leaves the reads queued.
flushBatchLeavesReads ==
    /\ microtasks > 0
    /\ microtasks' = microtasks - 1
    /\ batchScheduled' = FALSE
    /\ IF Len(batchQueue) = 0
       THEN UNCHANGED <<batchQueue, exchanges>>
       ELSE /\ exchanges' = Append(exchanges,
                  [queue |-> batchQueue, status |-> "inflight",
                   error |-> Undef, failedAt |-> 0, results |-> <<>>])
            /\ batchQueue' = SelectSeq(batchQueue, LAMBDA e : e.operation.op = "get")
    /\ UNCHANGED <<calls, store, absent, budget, other, request, remVars>>

\* A flush that posts the queue without taking the operations out of it.
flushBatchKeepsQueue ==
    /\ microtasks > 0
    /\ microtasks' = microtasks - 1
    /\ batchScheduled' = FALSE
    /\ IF Len(batchQueue) = 0
       THEN UNCHANGED <<batchQueue, exchanges>>
       ELSE /\ exchanges' = Append(exchanges,
                  [queue |-> batchQueue, status |-> "inflight",
                   error |-> Undef, failedAt |-> 0, results |-> <<>>])
            /\ UNCHANGED batchQueue
    /\ UNCHANGED <<calls, store, absent, budget, other, request, remVars>>

\* flushBatch up to its await (client.ts:96-113): clear the flag, return on an
\* empty queue, else splice(0) the whole queue and post it.
flushBatch ==
    /\ microtasks > 0
    /\ microtasks' = microtasks - 1
    /\ batchScheduled' = FALSE
    /\ IF Len(batchQueue) = 0
       THEN UNCHANGED <<batchQueue, exchanges>>
       ELSE /\ exchanges' = Append(exchanges,
                  [queue |-> batchQueue, status |-> "inflight",
                   error |-> Undef, failedAt |-> 0, results |-> <<>>])
            /\ batchQueue' = <<>>
    /\ UNCHANGED <<calls, store, absent, budget, other, request, remVars>>

\* --------------------------------------------------------------- the server
Entry(v, ttl) == [val |-> v, ttl |-> ttl]
NoEntry == Entry(Nil, NoTtl)

\* One operation of POST /cache/batch (logger.ex:246-260) on the store.
ServerApply(st, o) ==
    CASE o.op = "set" -> [st EXCEPT ![o.key] = Entry(o.value, o.ttl)]
      [] o.op = "delete" -> [st EXCEPT ![o.key] = NoEntry]
      [] OTHER -> st

\* A read that still answers with a value for an entry that has expired.
ServerResultStale(st, o, enc) ==
    CASE o.op = "get" ->
            [op |-> "get", key |-> o.key,
             value |-> IF st[o.key].val # Nil THEN st[o.key].val
                       ELSE IF st[o.key].ttl # NoTtl THEN OldValue ELSE enc]
      [] OTHER -> [op |-> o.op, key |-> o.key, value |-> TRUE]

\* Its result; a read of a missing key carries enc (null, or no value).
ServerResult(st, o, enc) ==
    CASE o.op = "get" ->
            [op |-> "get", key |-> o.key,
             value |-> IF st[o.key].val = Nil THEN enc ELSE st[o.key].val]
      [] OTHER -> [op |-> o.op, key |-> o.key, value |-> TRUE]

\* A store that applies the first n operations last to first.
RECURSIVE ServerStoreReversed(_, _, _)
ServerStoreReversed(st, ops, n) ==
    IF n = 0 THEN st ELSE ServerStoreReversed(ServerApply(st, ops[n]), ops, n - 1)

\* Enum.map over the operations, in order (logger.ex:245-261): the store after
\* the first n operations, and the results.
RECURSIVE ServerStore(_, _, _)
ServerStore(st, ops, n) ==
    IF n = 0 THEN st ELSE ServerApply(ServerStore(st, ops, n - 1), ops[n])

ServerResults(st, ops, enc) ==
    [i \in DOMAIN ops |-> ServerResult(ServerStore(st, ops, i - 1), ops[i], enc)]

Operations(queue) == [i \in DOMAIN queue |-> queue[i].operation]

\* -------------------------------------------------- flushBatch, after await
\* What a callback passes to its promise for a result (client.ts:119-125 and
\* the resolve of get, client.ts:242-245).
ResolveValue(cb, result) ==
    IF result.op = "get"
    THEN IF cb.conv /\ result.value = Undef THEN Null ELSE result.value
    ELSE Undef

\* The place in queue of the entry that holds the callback of call id, 0 if none.
ItemOf(queue, id) ==
    IF \E i \in DOMAIN queue : \E j \in DOMAIN queue[i].cbs : queue[i].cbs[j].id = id
    THEN CHOOSE i \in DOMAIN queue : \E j \in DOMAIN queue[i].cbs : queue[i].cbs[j].id = id
    ELSE 0

CallbackOf(queue, id) ==
    LET cbs == queue[ItemOf(queue, id)].cbs
    IN  cbs[CHOOSE j \in DOMAIN cbs : cbs[j].id = id]

\* The calls whose promises the entries of queue settle.
IdsOf(queue) ==
    UNION {{queue[i].cbs[j].id : j \in DOMAIN queue[i].cbs} : i \in DOMAIN queue}

\* A fan-out that pairs result i with the entry at the mirrored place.
ResolveAllReversed(cs, queue, results) ==
    [id \in DOMAIN cs |->
        IF ItemOf(queue, id) \in DOMAIN results /\ cs[id].promise.st = "pending"
        THEN [cs[id] EXCEPT !.promise =
                 Resolved(ResolveValue(CallbackOf(queue, id),
                                       results[Len(results) + 1 - ItemOf(queue, id)]))]
        ELSE cs[id]]

\* A fan-out without the branch for delete results.
ResolveAllNoDelete(cs, queue, results) ==
    [id \in DOMAIN cs |->
        IF /\ ItemOf(queue, id) \in DOMAIN results
           /\ cs[id].promise.st = "pending"
           /\ results[ItemOf(queue, id)].op # "delete"
        THEN [cs[id] EXCEPT !.promise =
                 Resolved(ResolveValue(CallbackOf(queue, id), results[ItemOf(queue, id)]))]
        ELSE cs[id]]

\* A fan-out over the pending queue of the moment instead of the snapshot.
ResolveAllOfPendingQueue(cs, queue, results) ==
    [id \in DOMAIN cs |->
        IF ItemOf(batchQueue, id) \in DOMAIN results /\ cs[id].promise.st = "pending"
        THEN [cs[id] EXCEPT !.promise =
                 Resolved(ResolveValue(CallbackOf(batchQueue, id),
                                       results[ItemOf(batchQueue, id)]))]
        ELSE cs[id]]

\* results.forEach((result, index) => queue[index].resolve(...)),
\* client.ts:116-126: the promise of call id after the fan-out.
ResolveAll(cs, queue, results) ==
    [id \in DOMAIN cs |->
        IF ItemOf(queue, id) \in DOMAIN results /\ cs[id].promise.st = "pending"
        THEN [cs[id] EXCEPT !.promise =
                 Resolved(ResolveValue(CallbackOf(queue, id), results[ItemOf(queue, id)]))]
        ELSE cs[id]]

\* A catch that rejects every pending promise of the client.
RejectAllPending(cs, queue, error) ==
    [id \in DOMAIN cs |->
        IF cs[id].promise.st = "pending"
        THEN [cs[id] EXCEPT !.promise = Rejected(error)]
        ELSE cs[id]]

\* A catch that rejects only the first entry of the snapshot.
RejectHeadOnly(cs, queue, error) ==
    [id \in DOMAIN cs |->
        IF ItemOf(queue, id) = 1 /\ cs[id].promise.st = "pending"
        THEN [cs[id] EXCEPT !.promise = Rejected(error)]
        ELSE cs[id]]

\* queue.forEach(item => item.reject(error)), client.ts:127-130.
RejectAll(cs, queue, error) ==
    [id \in DOMAIN cs |->
        IF ItemOf(queue, id) # 0 /\ cs[id].promise.st = "pending"
        THEN [cs[id] EXCEPT !.promise = Rejected(error)]
        ELSE cs[id]]

InFlight == {b \in DOMAIN exchanges : exchanges[b].status = "inflight"}

\* The server runs the batch and the response arrives.
BatchResponse(b) ==
    /\ b \in InFlight
    /\ LET queue == exchanges[b].queue
           results == ServerResults(store, Operations(queue), absent)
       IN  /\ store' = ServerStore(store, Operations(queue), Len(queue))
           /\ calls' = ResolveAll(calls, queue, results)
           /\ exchanges' = [exchanges EXCEPT ![b].status = "ok",
                                             ![b].results = results]
    /\ UNCHANGED <<batchQueue, batchScheduled, microtasks, absent, budget, other, request, remVars>>

\* A catch that puts the snapshot back on the pending queue.
BatchTransportFailureRequeues(b, error) ==
    /\ b \in InFlight
    /\ LET queue == exchanges[b].queue
       IN  /\ calls' = RejectAll(calls, queue, error)
           /\ batchQueue' = queue \o batchQueue
           /\ UNCHANGED store
           /\ exchanges' = [exchanges EXCEPT ![b].status = "failed",
                                             ![b].error = error]
    /\ UNCHANGED <<batchScheduled, microtasks, absent, budget, other, request, remVars>>

\* http.post throws a transport error before the server has run the request.
BatchTransportFailure(b, error) ==
    /\ b \in InFlight
    /\ LET queue == exchanges[b].queue
       IN  /\ calls' = RejectAll(calls, queue, error)
           /\ UNCHANGED store
           /\ exchanges' = [exchanges EXCEPT ![b].status = "failed",
                                             ![b].error = error]
    /\ UNCHANGED <<batchQueue, batchScheduled, microtasks, absent, budget, other, request, remVars>>

\* The store fails on operation n of the batch: the request handler crashes
\* there (a failed match in logger.ex:246-260), the operations before n are
\* applied, the answer is HTTP 500 and http.post throws LixServerError.
BatchStoreFailure(b, n) ==
    /\ b \in InFlight
    /\ n \in DOMAIN exchanges[b].queue
    /\ LET queue == exchanges[b].queue
       IN  /\ store' = ServerStore(store, Operations(queue), n - 1)
           /\ calls' = RejectAll(calls, queue, ServerError)
           /\ exchanges' = [exchanges EXCEPT ![b].status = "failed",
                                             ![b].error = ServerError,
                                             ![b].failedAt = n]
    /\ UNCHANGED <<batchQueue, batchScheduled, microtasks, absent, budget, other, request, remVars>>

\* An entry written with a ttl expires: the store no longer holds a value
\* for the key (the ttl is kept on the emptied entry, which tells an expired
\* entry from a deleted one).
Expire(key) ==
    /\ store[key].val # Nil
    /\ store[key].ttl # NoTtl
    /\ store' = [store EXCEPT ![key].val = Nil]
    /\ UNCHANGED <<engineVars, exchanges, absent, budget, other, request, remVars>>

\* ------------------------------------------------------------------ remember
\* A remember sequence is the async closure of client.ts:609-628; pc names the
\* await it is suspended at, call the invocation it awaits, read its first get,
\* invoked the number of times it has called the fallback.
NewSeq(kind, key, ttl, listTTL, pc, call, invoked) ==
    [kind |-> kind, key |-> key, ttl |-> ttl, listTTL |-> listTTL, pc |-> pc,
     read |-> call, call |-> call, value |-> Undef, items |-> <<>>,
     invoked |-> invoked, promise |-> Pending]

\* The sequence of key whose promise is still pending, 0 if none (read off the
\* sequences themselves, not off the registry).
LiveSeq(kind, key) ==
    LET live == {s \in DOMAIN seqs : seqs[s].kind = kind /\ seqs[s].key = key
                                      /\ seqs[s].promise.st = "pending"}
    IN  IF live = {} THEN 0 ELSE CHOOSE s \in live : TRUE

NewRCall(kind, key, seq) ==
    [kind |-> kind, key |-> key, seq |-> seq, live |-> LiveSeq(kind, key)]

\* A lookup that never finds an in-flight entry.
rememberInflightNever(registry, key) == 0

\* A lookup that finds the in-flight entry of any key.
rememberInflightAnyKey(registry, key) ==
    IF \E k \in DOMAIN registry : registry[k] # 0
    THEN registry[CHOOSE k \in DOMAIN registry : registry[k] # 0]
    ELSE 0

\* this.rememberPromises.get(key), client.ts:603-606.
rememberInflight(registry, key) == registry[key]

\* A cleanup that leaves the entry in place.
finallyKeep(registry, key) == registry

\* finally { this.rememberPromises.delete(key) }, client.ts:624-627 (and
\* client.ts:760-763 for rememberAll).
finallyDelete(registry, key) == [registry EXCEPT ![key] = 0]

\* A hit test that treats every read as a miss.
CacheHitNever(cached) == FALSE

\* cached !== null, client.ts:613.
CacheHit(cached) == cached # Null

\* remember (client.ts:597-634): join the in-flight sequence of the key, or
\* start one: the closure runs up to its first await, having called get, and
\* the promise is registered.
remember(key, ttl) ==
    /\ CanCall
    /\ LET inflight == rememberInflight(rememberPromises, key)
           s == Len(seqs) + 1
       IN  IF inflight # 0
           THEN /\ rcalls' = Append(rcalls, NewRCall("remember", key, inflight))
                /\ UNCHANGED <<engineVars, seqs, rememberPromises>>
           ELSE /\ getCall(key, s)
                /\ seqs' = Append(seqs, NewSeq("remember", key, ttl, NoTtl, "get", Len(calls) + 1, 0))
                /\ rememberPromises' = [rememberPromises EXCEPT ![key] = s]
                /\ rcalls' = Append(rcalls, NewRCall("remember", key, s))
    /\ UNCHANGED <<netVars, rememberAllPromises>>

\* The closure ends: finally runs, then its promise settles.
rememberFinish(s, outcome) ==
    /\ seqs' = [seqs EXCEPT ![s].pc = "done", ![s].promise = outcome]
    /\ rememberPromises' = finallyDelete(rememberPromises, seqs[s].key)

\* A closure that takes a failed read for a miss and goes on to the fallback.
rememberAfterGetSwallowsError(s) ==
    /\ s \in DOMAIN seqs /\ seqs[s].kind = "remember" /\ seqs[s].pc = "get"
    /\ calls[seqs[s].call].promise.st # "pending"
    /\ LET got == calls[seqs[s].call].promise
       IN  IF got.st = "resolved" /\ got.res # Null
           THEN rememberFinish(s, Resolved(got.res))
           ELSE /\ seqs' = [seqs EXCEPT ![s].pc = "fallback", ![s].invoked = @ + 1]
                /\ UNCHANGED rememberPromises
    /\ UNCHANGED <<engineVars, netVars, rememberAllPromises, rcalls>>

\* After await this.get(key), client.ts:612-618.
rememberAfterGet(s) ==
    /\ s \in DOMAIN seqs /\ seqs[s].kind = "remember" /\ seqs[s].pc = "get"
    /\ calls[seqs[s].call].promise.st # "pending"
    /\ LET got == calls[seqs[s].call].promise
       IN  IF got.st = "rejected"
           THEN rememberFinish(s, Rejected(got.res))
           ELSE IF CacheHit(got.res)
           THEN rememberFinish(s, Resolved(got.res))
           ELSE /\ seqs' = [seqs EXCEPT ![s].pc = "fallback", ![s].invoked = @ + 1]
                /\ UNCHANGED rememberPromises
    /\ UNCHANGED <<engineVars, netVars, rememberAllPromises, rcalls>>

\* The fallback returns value: set is called, client.ts:618-621.
rememberFallbackReturns(s, value) ==
    /\ s \in DOMAIN seqs /\ seqs[s].kind = "remember" /\ seqs[s].pc = "fallback"
    /\ setCall(seqs[s].key, value, seqs[s].ttl, s)
    /\ seqs' = [seqs EXCEPT ![s].pc = "set", ![s].value = value,
                             ![s].call = Len(calls) + 1]
    /\ UNCHANGED <<netVars, rememberPromises, rememberAllPromises, rcalls>>

\* A closure that writes null for the key before it rethrows the error.
rememberFallbackThrowsAfterSet(s) ==
    /\ s \in DOMAIN seqs /\ seqs[s].kind = "remember" /\ seqs[s].pc = "fallback"
    /\ setCall(seqs[s].key, Null, seqs[s].ttl, s)
    /\ rememberFinish(s, Rejected(ProducerError))
    /\ UNCHANGED <<netVars, rememberAllPromises, rcalls>>

\* The fallback throws.
rememberFallbackThrows(s) ==
    /\ s \in DOMAIN seqs /\ seqs[s].kind = "remember" /\ seqs[s].pc = "fallback"
    /\ rememberFinish(s, Rejected(ProducerError))
    /\ UNCHANGED <<engineVars, netVars, rememberAllPromises, rcalls>>

\* A closure that returns the value whether or not the write succeeded.
rememberAfterSetIgnoresFailure(s) ==
    /\ s \in DOMAIN seqs /\ seqs[s].kind = "remember" /\ seqs[s].pc = "set"
    /\ calls[seqs[s].call].promise.st # "pending"
    /\ rememberFinish(s, Resolved(seqs[s].value))
    /\ UNCHANGED <<engineVars, netVars, rememberAllPromises, rcalls>>

\* After await this.set(key, value, options), client.ts:621-623.
rememberAfterSet(s) ==
    /\ s \in DOMAIN seqs /\ seqs[s].kind = "remember" /\ seqs[s].pc = "set"
    /\ calls[seqs[s].call].promise.st # "pending"
    /\ LET done == calls[seqs[s].call].promise
       IN  IF done.st = "rejected"
           THEN rememberFinish(s, Rejected(done.res))
           ELSE rememberFinish(s, Resolved(seqs[s].value))
    /\ UNCHANGED <<engineVars, netVars, rememberAllPromises, rcalls>>

\* --------------------------------------------------------------- rememberAll
\* A rememberAll sequence is the async closure of client.ts:705-764.

\* String.starts_with?(key, prefix), logger.ex:284.
StartsWith(key, prefix) ==
    Len(prefix) <= Len(key) /\ SubSeq(key, 1, Len(prefix)) = prefix

\* GET /cache/scan (logger.ex:279-302): the keys the store holds under prefix.
ScanKeys(st, prefix) ==
    {k \in DOMAIN st : st[k].val # Nil /\ StartsWith(k, prefix)}

\* Cachex.keys returns them in no particular order.
Orders(S) ==
    {o \in [1..Cardinality(S) -> S] : \A i, j \in DOMAIN o : o[i] = o[j] => i = j}

\* scanResult.items?.map(item => item.value) || [], client.ts:716-717.
ScanValues(st, order) == [i \in DOMAIN order |-> st[order[i]].val]

\* Set operations that leave out the ttl.
ItemOperationsNoTtl(prefix, items, ttl) ==
    [i \in DOMAIN items |-> Operation("set", ItemKey(prefix, items[i]), items[i], NoTtl)]

\* The set operations rememberAll sends with this.batch, client.ts:723-728
\* and 740-745.
ItemOperations(prefix, items, ttl) ==
    [i \in DOMAIN items |-> Operation("set", ItemKey(prefix, items[i]), items[i], ttl)]

\* rememberAll (client.ts:690-770): join the in-flight sequence of the prefix,
\* or start one: with listTTL the closure calls exists(listMarkerKey) (a get,
\* client.ts:436-439) and suspends; without, it calls the fallback.
rememberAll(prefix, ttl, listTTL) ==
    /\ CanCall
    /\ LET inflight == rememberInflight(rememberAllPromises, prefix)
           s == Len(seqs) + 1
       IN  IF inflight # 0
           THEN /\ rcalls' = Append(rcalls, NewRCall("rememberAll", prefix, inflight))
                /\ UNCHANGED <<engineVars, seqs, rememberAllPromises>>
           ELSE /\ IF listTTL # NoTtl
                   THEN /\ getCall(listMarkerKey(prefix), s)
                        /\ seqs' = Append(seqs, NewSeq("rememberAll", prefix, ttl, listTTL,
                                                       "exists", Len(calls) + 1, 0))
                   ELSE /\ seqs' = Append(seqs, NewSeq("rememberAll", prefix, ttl, listTTL,
                                                       "fallback", 0, 1))
                        /\ UNCHANGED engineVars
                /\ rememberAllPromises' = [rememberAllPromises EXCEPT ![prefix] = s]
                /\ rcalls' = Append(rcalls, NewRCall("rememberAll", prefix, s))
    /\ UNCHANGED <<netVars, rememberPromises>>

\* The closure ends: finally runs, then its promise settles.
rememberAllFinish(s, outcome) ==
    /\ seqs' = [seqs EXCEPT ![s].pc = "done", ![s].promise = outcome]
    /\ rememberAllPromises' = finallyDelete(rememberAllPromises, seqs[s].key)

AtAll(s, pc) ==
    s \in DOMAIN seqs /\ seqs[s].kind = "rememberAll" /\ seqs[s].pc = pc

\* A closure that calls the fallback whether or not the marker exists.
rememberAllAfterExistsIgnoresMarker(s) ==
    /\ AtAll(s, "exists")
    /\ calls[seqs[s].call].promise.st # "pending"
    /\ LET got == calls[seqs[s].call].promise
       IN  IF got.st = "rejected"
           THEN rememberAllFinish(s, Rejected(got.res))
           ELSE /\ seqs' = [seqs EXCEPT ![s].pc = "fallback", ![s].invoked = @ + 1]
                /\ UNCHANGED rememberAllPromises
    /\ UNCHANGED <<engineVars, netVars, rememberPromises, rcalls>>

\* After await this.exists(listMarkerKey), client.ts:712-720: scan when the
\* marker exists (value !== null, client.ts:438), else call the fallback.
rememberAllAfterExists(s) ==
    /\ AtAll(s, "exists")
    /\ calls[seqs[s].call].promise.st # "pending"
    /\ LET got == calls[seqs[s].call].promise
       IN  IF got.st = "rejected"
           THEN rememberAllFinish(s, Rejected(got.res))
           ELSE /\ seqs' = IF got.res # Null
                           THEN [seqs EXCEPT ![s].pc = "scan"]
                           ELSE [seqs EXCEPT ![s].pc = "fallback", ![s].invoked = @ + 1]
                /\ UNCHANGED rememberAllPromises
    /\ UNCHANGED <<engineVars, netVars, rememberPromises, rcalls>>

\* The scan answers: the values under the prefix become the items.
rememberAllScanResponse(s) ==
    /\ AtAll(s, "scan")
    /\ \E order \in Orders(ScanKeys(store, seqs[s].key)) :
          rememberAllFinish(s, Resolved(ScanValues(store, order)))
    /\ UNCHANGED <<engineVars, netVars, rememberPromises, rcalls>>

\* http.get or http.post of the sequence throws.
rememberAllRequestFails(s, error) ==
    /\ AtAll(s, "scan") \/ AtAll(s, "batch")
    /\ rememberAllFinish(s, Rejected(error))
    /\ UNCHANGED <<engineVars, netVars, rememberPromises, rcalls>>

\* A closure that sets the marker as soon as the fallback has returned.
rememberAllFallbackReturnsMarkerFirst(s, items) ==
    /\ AtAll(s, "fallback")
    /\ seqs' = [seqs EXCEPT ![s].pc = "batch", ![s].items = items]
    /\ IF seqs[s].listTTL # NoTtl
       THEN setCall(listMarkerKey(seqs[s].key), "true", seqs[s].listTTL, s)
       ELSE UNCHANGED engineVars
    /\ UNCHANGED <<netVars, rememberPromises, rememberAllPromises, rcalls>>

\* The fallback returns the list: this.batch posts one set per item,
\* client.ts:720-730 and 737-747.
rememberAllFallbackReturns(s, items) ==
    /\ AtAll(s, "fallback")
    /\ seqs' = [seqs EXCEPT ![s].pc = "batch", ![s].items = items]
    /\ UNCHANGED <<engineVars, netVars, rememberPromises, rememberAllPromises, rcalls>>

\* A closure that sets the marker before it rethrows the fallback's error.
rememberAllFallbackThrowsAfterMarker(s) ==
    /\ AtAll(s, "fallback")
    /\ setCall(listMarkerKey(seqs[s].key), "true", seqs[s].listTTL, s)
    /\ rememberAllFinish(s, Rejected(ProducerError))
    /\ UNCHANGED <<netVars, rememberPromises, rcalls>>

\* The fallback throws.
rememberAllFallbackThrows(s) ==
    /\ AtAll(s, "fallback")
    /\ rememberAllFinish(s, Rejected(ProducerError))
    /\ UNCHANGED <<engineVars, netVars, rememberPromises, rcalls>>

\* The server runs the posted sets and answers; with listTTL the marker is
\* then set (client.ts:733), else the closure returns.
rememberAllBatchResponse(s) ==
    /\ AtAll(s, "batch")
    /\ LET ops == ItemOperations(seqs[s].key, seqs[s].items, seqs[s].ttl)
       IN  store' = ServerStore(store, ops, Len(ops))
    /\ IF seqs[s].listTTL # NoTtl
       THEN /\ setCall(listMarkerKey(seqs[s].key), "true", seqs[s].listTTL, s)
            /\ seqs' = [seqs EXCEPT ![s].pc = "marker", ![s].call = Len(calls) + 1]
            /\ UNCHANGED rememberAllPromises
       ELSE /\ rememberAllFinish(s, Resolved(seqs[s].items))
            /\ UNCHANGED engineVars
    /\ UNCHANGED <<exchanges, absent, budget, other, request, rememberPromises, rcalls>>

\* After await this.set(listMarkerKey, true, ...), client.ts:733-759.
rememberAllAfterMarker(s) ==
    /\ AtAll(s, "marker")
    /\ calls[seqs[s].call].promise.st # "pending"
    /\ LET done == calls[seqs[s].call].promise
       IN  IF done.st = "rejected"
           THEN rememberAllFinish(s, Rejected(done.res))
           ELSE rememberAllFinish(s, Resolved(seqs[s].items))
    /\ UNCHANGED <<engineVars, netVars, rememberPromises, rcalls>>

\* ------------------------------------------------------------ HttpClient
\* HttpClient.request (part_009:71-120).  A text (an error message, the body of
\* an answer) is the sequence of its words, so that String.includes is
\* computed on it.
includes(text, word) == \E i \in DOMAIN text : text[i] = word

\* config.maxRetries and config.retryDelay (part_009:10-16; 3 and 100 by
\* default, client.ts:66-67).
RetryLimits == 0..MaxRetries
RetryDelays == {100, 250}

\* The bodies of the error answers: of the cache server (logger.ex:165), and
\* of a gateway in front of it.
Bodies == {<<"internal", "error">>, <<"bad", "gateway", "network", "error">>}
Statuses == {401, 500, 502}

\* The errors of part_009 and client.ts:1195-1345, with their messages.
FetchTypeError == [name |-> "TypeError", message |-> <<"fetch", "failed">>]
AbortError == [name |-> "AbortError", message |-> <<"This", "operation", "was", "aborted">>]
LixTimeoutError ==
    [name |-> "LixTimeoutError",
     message |-> <<"Request", "timed", "out", "Verify", "network", "conditions">>]
LixAuthError ==
    [name |-> "LixAuthError", message |-> <<"Authentication", "failed">>]
LixServerError(status, body) ==
    [name |-> "LixServerError",
     message |-> <<"Server", "error">> \o body
                    \o <<"The", "cache", "server", "returned", "an", "error", "response">>]
LixConnectionError ==
    [name |-> "LixConnectionError",
     message |-> <<"Failed", "to", "connect", "Verify", "network", "connectivity">>]

\* handleErrorResponse (part_009:125-163): the error it throws.
handleErrorResponse(status, body) ==
    IF status = 401 THEN LixAuthError ELSE LixServerError(status, body)

\* isNetworkError (part_009:197-205).
isNetworkError(error) ==
    \/ error.name = "TypeError"
    \/ includes(error.message, "fetch") \/ includes(error.message, "network")

\* Math.pow(2, n).
RECURSIVE pow(_, _)
pow(b, n) == IF n = 0 THEN 1 ELSE b * pow(b, n - 1)

\* A wait that grows by retryDelay with each retry.
retryWaitLinear(retryDelay, retryCount) == retryDelay * (retryCount + 1)

\* this.config.retryDelay * Math.pow(2, retryCount), part_009:107.
retryWait(retryDelay, retryCount) == retryDelay * pow(2, retryCount)

\* No request yet; and a request at its first attempt (retryCount = 0).
\* attempts lists what each fetch so far ended with, waits the sleeps made.
NoRequest ==
    [pc |-> "idle", maxRetries |-> 0, retryDelay |-> 0, retryCount |-> 0,
     attempts |-> <<>>, waits |-> <<>>, promise |-> Pending]
NewRequest(maxRetries, retryDelay) ==
    [pc |-> "fetch", maxRetries |-> maxRetries, retryDelay |-> retryDelay,
     retryCount |-> 0, attempts |-> <<>>, waits |-> <<>>, promise |-> Pending]

engineFrame ==
    <<engineVars, exchanges, store, absent, budget, other, remVars>>

\* http.get / http.post / http.delete call request (part_009:40-66).
httpRequest(maxRetries, retryDelay) ==
    /\ request.pc = "idle"
    /\ request' = NewRequest(maxRetries, retryDelay)
    /\ UNCHANGED engineFrame

\* The catch block (part_009:96-119) for the error of this attempt; outcome
\* names what the attempt ended with.
catch(error, outcome) ==
    LET tried == [request EXCEPT !.attempts = Append(@, outcome)]
    IN  IF error.name = "AbortError"
        THEN request' = [tried EXCEPT !.pc = "done",
                                      !.promise = Rejected(LixTimeoutError.name)]
        ELSE IF isNetworkError(error) /\ request.retryCount < request.maxRetries
        THEN request' = [tried EXCEPT !.pc = "sleep",
                            !.waits = Append(@, retryWait(request.retryDelay,
                                                          request.retryCount))]
        ELSE IF isNetworkError(error)
        THEN request' = [tried EXCEPT !.pc = "done",
                                      !.promise = Rejected(LixConnectionError.name)]
        ELSE request' = [tried EXCEPT !.pc = "done", !.promise = Rejected(error.name)]

\* fetch resolves with an ok answer (part_009:85-88).
fetchOk ==
    /\ request.pc = "fetch"
    /\ request' = [request EXCEPT !.pc = "done", !.attempts = Append(@, "ok"),
                                   !.promise = Resolved("json")]
    /\ UNCHANGED engineFrame

\* fetch resolves with an error answer: handleErrorResponse throws
\* (part_009:90-94).
fetchErrorResponse(status, body) ==
    /\ request.pc = "fetch"
    /\ catch(handleErrorResponse(status, body), "response")
    /\ UNCHANGED engineFrame

\* The timeout aborts the fetch (part_009:77-78, 99-102).
fetchAborted ==
    /\ request.pc = "fetch"
    /\ catch(AbortError, "timeout")
    /\ UNCHANGED engineFrame

\* fetch rejects: the connection failed.
fetchFails ==
    /\ request.pc = "fetch"
    /\ catch(FetchTypeError, "network")
    /\ UNCHANGED engineFrame

\* The sleep ends: request(url, options, retryCount + 1), part_009:108-109.
retry ==
    /\ request.pc = "sleep"
    /\ request' = [request EXCEPT !.pc = "fetch", !.retryCount = @ + 1]
    /\ UNCHANGED engineFrame

\* ------------------------------------------------------ the lookup of a result
\* A second version of item b, with the same id, and the lists of up to
\* MaxItems items a fallback can return, repeated ids included.
ItemBAgain == "item b again"
IndexItems == Items \cup {ItemBAgain}
IndexLists == UNION {[1..n -> IndexItems] : n \in 0..MaxItems}

\* getKey on a value of the result: item.id; the value of the list marker,
\* true, has no id.
IdOf(value) == IF value \in IndexItems THEN getKey(value) ELSE Undef
Ids == {IdOf(v) : v \in IndexItems} \cup {Undef}

\* An index that keeps the first item of an id.
itemMapFirstWins(items, n) ==
    LET first == {i \in 1..n : \A j \in 1..(i - 1) : IdOf(items[j]) # IdOf(items[i])}
    IN  [k \in Ids |->
           IF \E i \in first : IdOf(items[i]) = k
           THEN items[CHOOSE i \in first : IdOf(items[i]) = k]
           ELSE Undef]

\* The index after forEach has visited the first n items (client.ts:750-753):
\* a new Map, and itemMap.set(getKey(item), item) for each item in order.
RECURSIVE itemMap(_, _)
itemMap(items, n) ==
    IF n = 0
    THEN [k \in Ids |-> Undef]
    ELSE [itemMap(items, n - 1) EXCEPT ![IdOf(items[n])] = items[n]]

\* getBy: (key) => itemMap.get(key), client.ts:757.
getBy(items, key) == itemMap(items, Len(items))[key]

\* ---------------------------------------------------- Collection.rememberAll
\* A collection created with a schema (client.ts:810-833): the schema accepts
\* the items of the application and nothing else; validate returns the data
\* it accepts and throws on the rest (schema.parse).
Schema == Items \cup Values
ValidationError == "ZodError"
validate(data) == IF data \in Schema THEN data ELSE ValidationError
\* An item the schema rejects, and the lists a fallback can return.
InvalidItem == "item x"
CollectionLists == ProducerLists \cup {<<InvalidItem>>}

\* list.map(item => this.validate(item)): the list, or the error thrown.
ValidateAll(list) ==
    IF \E i \in DOMAIN list : validate(list[i]) = ValidationError
    THEN Rejected(ValidationError)
    ELSE Resolved([i \in DOMAIN list |-> validate(list[i])])

AtCollection(s, pc) ==
    s \in DOMAIN seqs /\ seqs[s].kind = "collection" /\ seqs[s].pc = pc

\* Collection.rememberAll returns: there is no registry to clean.
CollectionFinish(s, outcome) ==
    seqs' = [seqs EXCEPT ![s].pc = "done", ![s].promise = outcome]

\* Collection.rememberAll (client.ts:1125-1189) up to its first await: with
\* listTTL the check of the marker, without it the fallback.  Every call runs
\* on its own.
CollectionRememberAll(prefix, ttl, listTTL) ==
    /\ CanCall
    /\ LET s == Len(seqs) + 1
       IN  /\ IF listTTL # NoTtl
              THEN /\ getCall(listMarkerKey(prefix), s)
                   /\ seqs' = Append(seqs, NewSeq("collection", prefix, ttl, listTTL,
                                                  "exists", Len(calls) + 1, 0))
              ELSE /\ seqs' = Append(seqs, NewSeq("collection", prefix, ttl, listTTL,
                                                  "fallback", 0, 1))
                   /\ UNCHANGED engineVars
           /\ rcalls' = Append(rcalls, NewRCall("collection", prefix, s))
    /\ UNCHANGED <<netVars, rememberPromises, rememberAllPromises>>

\* After await this.client.exists(listMarkerKey), client.ts:1137-1145.
CollectionAfterExists(s) ==
    /\ AtCollection(s, "exists")
    /\ calls[seqs[s].call].promise.st # "pending"
    /\ LET got == calls[seqs[s].call].promise
       IN  seqs' = IF got.st = "rejected"
                   THEN [seqs EXCEPT ![s].pc = "done", ![s].promise = Rejected(got.res)]
                   ELSE IF got.res # Null
                   THEN [seqs EXCEPT ![s].pc = "scan"]
                   ELSE [seqs EXCEPT ![s].pc = "fallback", ![s].invoked = @ + 1]
    /\ UNCHANGED <<engineVars, netVars, rememberPromises, rememberAllPromises, rcalls>>

\* The scan answers: Collection.scan validates every value it returns
\* (client.ts:878-896), and rememberAll takes the values (client.ts:1141-1142).
CollectionScanResponse(s) ==
    /\ AtCollection(s, "scan")
    /\ \E order \in Orders(ScanKeys(store, seqs[s].key)) :
          CollectionFinish(s, ValidateAll(ScanValues(store, order)))
    /\ UNCHANGED <<engineVars, netVars, rememberPromises, rememberAllPromises, rcalls>>

\* http.get or http.post of the sequence throws.
CollectionRequestFails(s, error) ==
    /\ AtCollection(s, "scan") \/ AtCollection(s, "batch")
    /\ CollectionFinish(s, Rejected(error))
    /\ UNCHANGED <<engineVars, netVars, rememberPromises, rememberAllPromises, rcalls>>

\* The fallback returns the list: the items are validated and batchSet posts
\* one set per item (client.ts:1145-1157, 1164-1176, 930-947).
CollectionFallbackReturns(s, items) ==
    /\ AtCollection(s, "fallback")
    /\ IF ValidateAll(items).st = "rejected"
       THEN CollectionFinish(s, ValidateAll(items))
       ELSE seqs' = [seqs EXCEPT ![s].pc = "batch", ![s].items = ValidateAll(items).res]
    /\ UNCHANGED <<engineVars, netVars, rememberPromises, rememberAllPromises, rcalls>>

\* The fallback throws.
CollectionFallbackThrows(s) ==
    /\ AtCollection(s, "fallback")
    /\ CollectionFinish(s, Rejected(ProducerError))
    /\ UNCHANGED <<engineVars, netVars, rememberPromises, rememberAllPromises, rcalls>>

\* The server runs the posted sets and answers; with listTTL the marker is
\* then set (client.ts:1160), else the call returns.
CollectionBatchResponse(s) ==
    /\ AtCollection(s, "batch")
    /\ LET ops == ItemOperations(seqs[s].key, seqs[s].items, seqs[s].ttl)
       IN  store' = ServerStore(store, ops, Len(ops))
    /\ IF seqs[s].listTTL # NoTtl
       THEN /\ setCall(listMarkerKey(seqs[s].key), "true", seqs[s].listTTL, s)
            /\ seqs' = [seqs EXCEPT ![s].pc = "marker", ![s].call = Len(calls) + 1]
       ELSE /\ CollectionFinish(s, Resolved(seqs[s].items))
            /\ UNCHANGED engineVars
    /\ UNCHANGED <<exchanges, absent, budget, other, request, rememberPromises, rememberAllPromises, rcalls>>

\* After await this.client.set(listMarkerKey, true, ...), client.ts:1160-1189.
CollectionAfterMarker(s) ==
    /\ AtCollection(s, "marker")
    /\ calls[seqs[s].call].promise.st # "pending"
    /\ LET done == calls[seqs[s].call].promise
       IN  IF done.st = "rejected"
           THEN CollectionFinish(s, Rejected(done.res))
           ELSE CollectionFinish(s, Resolved(seqs[s].items))
    /\ UNCHANGED <<engineVars, netVars, rememberPromises, rememberAllPromises, rcalls>>

\* What the fallback of a key returns when each key is remembered with a
\* fallback of its own: fallback1 -> { key: 1 }, fallback2 -> { key: 2 }
\* (remember.test.ts:117-118).
fallbackOf(key) == IF key = <<"k1">> THEN "key 1" ELSE "key 2"

\* ------------------------------------------- Value and Collection wrappers
\* Value (value.ts:41-149) and Collection (client.ts:810-1070) created with a
\* schema: set validates and calls client.set; remember calls client.remember
\* with a fallback that validates what the application's fallback returns.

\* A set of the wrapper that passes the value on without validating it.
ValueSetUnchecked(key, value) ==
    /\ CanCall
    /\ setCall(key, value, NoTtl, 0)
    /\ UNCHANGED <<netVars, remVars>>

\* Value.set (value.ts:64-68) and Collection.set (client.ts:840-844):
\* validate throws before client.set is called, and the call rejects (it is
\* recorded in rcalls, with no sequence); else client.set is called.
ValueSet(key, value) ==
    /\ CanCall
    /\ IF validate(value) = ValidationError
       THEN /\ rcalls' = Append(rcalls, [kind |-> "set", key |-> key, seq |-> 0, live |-> 0])
            /\ UNCHANGED <<engineVars, netVars, rememberPromises, rememberAllPromises, seqs>>
       ELSE /\ setCall(key, validate(value), NoTtl, 0)
            /\ UNCHANGED <<netVars, remVars>>

\* Value.remember (value.ts:135-149) and Collection.remember
\* (client.ts:1055-1070): client.remember of the key.
ValueRemember(key, ttl) == remember(key, ttl)

\* The fallback handed to client.remember (value.ts:142-146): the value the
\* application's fallback returned is validated; it is returned to remember,
\* which calls set, or the validation error is thrown.
ValueFallbackReturns(s, value) ==
    /\ s \in DOMAIN seqs /\ seqs[s].kind = "remember" /\ seqs[s].pc = "fallback"
    /\ IF validate(value) = ValidationError
       THEN /\ rememberFinish(s, Rejected(ValidationError))
            /\ UNCHANGED engineVars
       ELSE /\ setCall(seqs[s].key, validate(value), seqs[s].ttl, s)
            /\ seqs' = [seqs EXCEPT ![s].pc = "set", ![s].value = validate(value),
                                     ![s].call = Len(calls) + 1]
            /\ UNCHANGED rememberPromises
    /\ UNCHANGED <<netVars, rememberAllPromises, rcalls>>

\* ------------------------------------------------------------------- claims
Settled(id) == calls[id].promise.st # "pending"
Completed == {b \in DOMAIN exchanges : exchanges[b].status # "inflight"}
GetsOf(queue, key) ==
    {i \in DOMAIN queue : queue[i].operation.op = "get" /\ queue[i].operation.key = key}

\* C1: every get, set and delete invocation made in one batch cycle (before
\* the flush scheduled by the first of them runs) is sent in one and the same
\* request: an invocation of cycle n is in request n once that flush has run,
\* and in the pending queue until then; no request is empty.
C1_OneRequestPerCycle ==
    /\ \A id \in DOMAIN calls :
          IF calls[id].cyc <= Len(exchanges)
          THEN id \in IdsOf(exchanges[calls[id].cyc].queue)
          ELSE id \in IdsOf(batchQueue)
    /\ \A b \in DOMAIN exchanges :
          /\ exchanges[b].queue # <<>>
          /\ \A id \in IdsOf(exchanges[b].queue) : calls[id].cyc = b

\* A burst of three invocations of mixed kinds went out as one request.
C1_Witness ==
    /\ Len(exchanges) = 1
    /\ Len(calls) = 3
    /\ \A id \in DOMAIN calls : id \in IdsOf(exchanges[1].queue)
    /\ {calls[id].op : id \in DOMAIN calls} = {"get", "set", "delete"}

\* The entries of a queue are in invocation order and carry the operation of
\* the invocation that pushed them.
InCallOrder(queue) ==
    /\ \A i, j \in DOMAIN queue : i < j => queue[i].cbs[1].id < queue[j].cbs[1].id
    /\ \A i \in DOMAIN queue :
          LET c == calls[queue[i].cbs[1].id]
          IN  queue[i].operation = Operation(c.op, c.key, c.value, c.ttl)

\* C2: the operations of every request are in the order of their invocations,
\* and result i of the response is a result for operation i and is what every
\* promise of operation i was resolved with.
C2_OrderAndPositions ==
    /\ InCallOrder(batchQueue)
    /\ \A b \in DOMAIN exchanges : InCallOrder(exchanges[b].queue)
    /\ \A b \in DOMAIN exchanges : exchanges[b].status = "ok" =>
          LET queue == exchanges[b].queue
              results == exchanges[b].results
          IN  /\ Len(results) = Len(queue)
              /\ \A i \in DOMAIN queue :
                    /\ results[i].op = queue[i].operation.op
                    /\ results[i].key = queue[i].operation.key
                    /\ \A j \in DOMAIN queue[i].cbs :
                          /\ calls[queue[i].cbs[j].id].op = results[i].op
                          /\ calls[queue[i].cbs[j].id].key = results[i].key
                          /\ calls[queue[i].cbs[j].id].promise =
                                Resolved(ResolveValue(queue[i].cbs[j], results[i]))

\* A response to a request of three operations of different kinds and keys.
C2_Witness ==
    \E b \in DOMAIN exchanges :
        /\ exchanges[b].status = "ok"
        /\ Len(exchanges[b].queue) = 3
        /\ exchanges[b].queue[1].operation.op = "set"
        /\ exchanges[b].queue[2].operation.op = "get"
        /\ exchanges[b].queue[1].operation.key # exchanges[b].queue[3].operation.key

\* C3: the get invocations of one key in one cycle share one queued get, and
\* all of them resolve to the identical value.
C3_CollapsedReadsIdentical ==
    /\ \A k \in Keys : Cardinality(GetsOf(batchQueue, k)) <= 1
    /\ \A b \in DOMAIN exchanges : \A k \in Keys :
          Cardinality(GetsOf(exchanges[b].queue, k)) <= 1
    /\ \A c, d \in DOMAIN calls :
          (/\ calls[c].op = "get" /\ calls[d].op = "get"
           /\ calls[c].key = calls[d].key /\ calls[c].cyc = calls[d].cyc
           /\ calls[c].promise.st = "resolved" /\ calls[d].promise.st = "resolved")
          => calls[c].promise.res = calls[d].promise.res

\* C5: when the exchange of a batch fails at the transport, every promise of
\* its snapshot, attached callers included, is rejected with that error; the
\* invocations of the pending queue and of the batches still in flight stay
\* pending, and nothing is rejected but the promises of a failed batch.
C5_TransportFailureRejectsSnapshotOnly ==
    /\ \A b \in DOMAIN exchanges : exchanges[b].status = "failed" =>
          \A id \in IdsOf(exchanges[b].queue) :
              calls[id].promise = Rejected(exchanges[b].error)
    /\ \A id \in IdsOf(batchQueue) : ~Settled(id)
    /\ \A b \in InFlight : \A id \in IdsOf(exchanges[b].queue) : ~Settled(id)
    /\ \A id \in DOMAIN calls : calls[id].promise.st = "rejected" =>
          \E b \in DOMAIN exchanges :
              exchanges[b].status = "failed" /\ id \in IdsOf(exchanges[b].queue)

\* A batch with a collapsed read failed while a later batch was in flight and
\* another invocation was waiting in the queue.
C5_Witness ==
    \E b \in DOMAIN exchanges :
        /\ exchanges[b].status = "failed"
        /\ \E i \in DOMAIN exchanges[b].queue : Len(exchanges[b].queue[i].cbs) > 1
        /\ \E d \in InFlight : d > b

C7_CompletedBatchSettled ==
    \A b \in Completed : \A id \in IdsOf(exchanges[b].queue) : Settled(id)

\* One batch answered and one failed, with all three kinds of operation.
C7_Witness ==
    /\ \E b \in DOMAIN exchanges : exchanges[b].status = "ok"
    /\ \E b \in DOMAIN exchanges : exchanges[b].status = "failed"
    /\ {calls[id].op : id \in {c \in DOMAIN calls : Settled(c)}} = {"get", "set", "delete"}

\* C8: a get of a key the store does not hold resolves to null for every
\* caller, attached callers included, whether the result carries null or no
\* value.
C8_AbsentReadsResolveNull ==
    \A b \in DOMAIN exchanges : exchanges[b].status = "ok" =>
        \A i \in DOMAIN exchanges[b].queue :
            (exchanges[b].results[i].op = "get"
                /\ exchanges[b].results[i].value \in {Null, Undef})
            => \A j \in DOMAIN exchanges[b].queue[i].cbs :
                  calls[exchanges[b].queue[i].cbs[j].id].promise = Resolved(Null)


\* Sequences of one kind and key whose promise is pending.
LiveSeqs(kind, key) ==
    {s \in DOMAIN seqs : seqs[s].kind = kind /\ seqs[s].key = key
                          /\ seqs[s].promise.st = "pending"}
Joined(s) == {r \in DOMAIN rcalls : rcalls[r].seq = s}

\* C4: at most one remember sequence is in progress per key; a remember made
\* while a sequence of its key is in progress joins that sequence and so gets
\* its promise; no sequence invokes the fallback more than once.
C4_SingleFlightPerKey ==
    /\ \A k \in Keys : Cardinality(LiveSeqs("remember", k)) <= 1
    /\ \A s \in DOMAIN seqs : seqs[s].invoked <= 1
    /\ \A r \in DOMAIN rcalls : rcalls[r].live # 0 => rcalls[r].seq = rcalls[r].live

\* Three remember invocations of one key shared one sequence, which invoked
\* the fallback once and resolved.
C4_Witness ==
    \E s \in DOMAIN seqs :
        /\ seqs[s].kind = "remember"
        /\ Cardinality(Joined(s)) = 3
        /\ seqs[s].invoked = 1
        /\ seqs[s].promise.st = "resolved"

SetsBy(s) == {c \in DOMAIN calls : calls[c].by = s /\ calls[c].op = "set"}

\* C10: when the read of a remember sequence resolves to a value other than
\* null, the sequence never invokes the fallback, never calls set, and, once
\* it has resumed, is resolved with that value.
C10_CacheHitSkipsProducer ==
    \A s \in DOMAIN seqs :
        (/\ seqs[s].kind = "remember"
         /\ calls[seqs[s].read].promise.st = "resolved"
         /\ calls[seqs[s].read].promise.res # Null)
        => /\ seqs[s].invoked = 0
           /\ SetsBy(s) = {}
           /\ seqs[s].pc # "get" =>
                 seqs[s].promise = Resolved(calls[seqs[s].read].promise.res)

\* A remember of the key the store holds resolved with the stored value.
C10_Witness ==
    \E s \in DOMAIN seqs :
        /\ seqs[s].kind = "remember"
        /\ calls[seqs[s].read].promise = Resolved(OldValue)
        /\ seqs[s].promise = Resolved(OldValue)

\* The set invocations made for a key, by anyone.
SetsOf(key) == {c \in DOMAIN calls : calls[c].op = "set" /\ calls[c].key = key}
\* The get invocations of the application that were pushed on the queue (not
\* attached to a get queued before them).
PushedReads(key) ==
    {c \in AppCalls : /\ calls[c].op = "get" /\ calls[c].key = key
                      /\ \E b \in DOMAIN exchanges :
                            \E i \in DOMAIN exchanges[b].queue :
                                exchanges[b].queue[i].cbs[1].id = c}

\* C11: a remember sequence whose fallback threw is rejected with the
\* fallback's error, having invoked it once and called set never; while
\* nothing else writes the key, the store holds no entry for it and a plain
\* read of it resolves to null.
C11_ProducerErrorWritesNothing ==
    /\ \A s \in DOMAIN seqs :
          (seqs[s].kind = "remember" /\ seqs[s].promise = Rejected(ProducerError))
          => /\ seqs[s].invoked = 1
             /\ SetsBy(s) = {}
             /\ SetsOf(seqs[s].key) = {} /\ seqs[s].key # <<"k1">> =>
                   /\ store[seqs[s].key] = NoEntry
                   /\ \A c \in PushedReads(seqs[s].key) :
                         calls[c].promise.st = "resolved" => calls[c].promise.res = Null
    /\ \A s \in DOMAIN seqs :
          (seqs[s].kind = "remember" /\ seqs[s].pc = "done" /\ seqs[s].invoked = 1
              /\ SetsBy(s) = {})
          => seqs[s].promise = Rejected(ProducerError)

\* The fallback of a remember threw, and a plain read of the key made in a
\* later cycle resolved to null.
C11_Witness ==
    \E s \in DOMAIN seqs : \E c \in PushedReads(seqs[s].key) :
        /\ seqs[s].kind = "remember"
        /\ seqs[s].promise = Rejected(ProducerError)
        /\ calls[c].cyc > calls[seqs[s].read].cyc
        /\ calls[c].promise = Resolved(Null)

\* The exchange that carried invocation id, 0 while it waits in the queue.
ExchangeOf(id) ==
    IF \E b \in DOMAIN exchanges : id \in IdsOf(exchanges[b].queue)
    THEN CHOOSE b \in DOMAIN exchanges : id \in IdsOf(exchanges[b].queue)
    ELSE 0

\* C12: a remember sequence that invoked the fallback is resolved only with
\* the value it wrote and only once that write was answered by the store; if
\* the write was rejected the sequence, and so every caller that joined it,
\* is rejected with the error of the write.
C12_ResolvedOnlyAfterWriteAcknowledged ==
    \A s \in DOMAIN seqs : seqs[s].kind = "remember" /\ seqs[s].invoked = 1 =>
        /\ seqs[s].promise.st = "resolved" =>
              \E c \in SetsBy(s) :
                  /\ calls[c].key = seqs[s].key
                  /\ calls[c].value = seqs[s].promise.res
                  /\ calls[c].promise.st = "resolved"
                  /\ ExchangeOf(c) # 0
                  /\ exchanges[ExchangeOf(c)].status = "ok"
        /\ \A c \in SetsBy(s) :
              /\ calls[c].promise.st = "pending" => seqs[s].promise.st = "pending"
              /\ calls[c].promise.st = "rejected" /\ seqs[s].pc = "done" =>
                    seqs[s].promise = Rejected(calls[c].promise.res)

\* The write of a produced value failed and the sequence, joined by two
\* callers, was rejected; a later sequence of the key wrote and resolved.
C12_Witness ==
    \E s, t \in DOMAIN seqs :
        /\ seqs[s].kind = "remember" /\ seqs[t].kind = "remember"
        /\ Cardinality(Joined(s)) = 2
        /\ \E c \in SetsBy(s) : calls[c].promise.st = "rejected"
        /\ seqs[s].promise.st = "rejected"
        /\ SetsBy(t) # {} /\ seqs[t].promise.st = "resolved"

\* What the caller of invocation r of remember or rememberAll holds: the
\* promise of the sequence it started or joined.
Outcome(r) == seqs[rcalls[r].seq].promise

\* C13: a remember sequence that fails, at its read, in its fallback or at
\* its write, is rejected with the error of that step, and every caller that
\* called while it was in flight holds that rejection; the fallback was
\* invoked at most once, and not at all when the read failed.
C13_FailureReachesEveryCaller ==
    /\ \A s \in DOMAIN seqs : seqs[s].kind = "remember" =>
          /\ seqs[s].invoked <= 1
          /\ calls[seqs[s].read].promise.st = "rejected" /\ seqs[s].pc # "get" =>
                /\ seqs[s].promise = Rejected(calls[seqs[s].read].promise.res)
                /\ seqs[s].invoked = 0
          /\ seqs[s].promise.st = "rejected" =>
                \/ seqs[s].promise = calls[seqs[s].read].promise
                \/ seqs[s].promise = Rejected(ProducerError) /\ seqs[s].invoked = 1
                \/ \E c \in SetsBy(s) : seqs[s].promise = calls[c].promise
    /\ \A r \in DOMAIN rcalls : rcalls[r].kind = "remember" /\ rcalls[r].live # 0 =>
          Outcome(r) = seqs[rcalls[r].live].promise

\* The read of a sequence that three callers share failed at the transport.
C13_Witness ==
    \E s \in DOMAIN seqs :
        /\ seqs[s].kind = "remember"
        /\ Cardinality(Joined(s)) = 3
        /\ calls[seqs[s].read].promise.st = "rejected"
        /\ \A r \in Joined(s) : Outcome(r) = Rejected(calls[seqs[s].read].promise.res)

\* C14: remember never resolves to null: every remember sequence that is
\* resolved is resolved with a value other than null.
C14_NeverResolvesNull ==
    \A s \in DOMAIN seqs :
        seqs[s].kind = "remember" /\ seqs[s].promise.st = "resolved" =>
            seqs[s].promise.res # Null

\* The entry of key has expired and has not been written since.
Expired(key) == store[key].val = Nil /\ store[key].ttl # NoTtl

\* Sequence t is suspended at its read of a key whose entry has expired, the
\* read was sent on its own in exchange b, which is in flight, and an earlier
\* remember of the key had cached a value with a ttl.
ReadAfterExpiry(b, t) ==
    /\ seqs[t].kind = "remember" /\ seqs[t].pc = "get"
    /\ exchanges[b].status = "inflight"
    /\ Expired(seqs[t].key)
    /\ \E i \in DOMAIN exchanges[b].queue :
          /\ exchanges[b].queue[i].cbs[1].id = seqs[t].read
          /\ \A j \in 1..(i - 1) : exchanges[b].queue[j].operation.key # seqs[t].key
    /\ \E s \in 1..(t - 1) :
          /\ seqs[s].kind = "remember" /\ seqs[s].key = seqs[t].key
          /\ seqs[s].ttl # NoTtl
          /\ \E c \in SetsBy(s) : calls[c].promise.st = "resolved"

\* C15: once the entry a remember wrote with a ttl has expired at the store,
\* the read of the next remember of that key is answered with no value and
\* resolves to null, and a remember whose read resolved to null invokes the
\* fallback (once) when it resumes.
C15_ExpiredEntryInvokesProducerAgain ==
    /\ [][\A b \in DOMAIN exchanges : \A t \in DOMAIN seqs :
            (ReadAfterExpiry(b, t) /\ exchanges'[b].status = "ok")
            => calls'[seqs[t].read].promise = Resolved(Null)]_vars
    /\ [](\A t \in DOMAIN seqs :
            (/\ seqs[t].kind = "remember" /\ seqs[t].pc # "get"
             /\ calls[seqs[t].read].promise = Resolved(Null))
            => seqs[t].invoked = 1)

\* A remember cached a value with a ttl, the entry expired, and the next
\* remember of the key read null and invoked the fallback.
C15_Witness ==
    \E s, t \in DOMAIN seqs :
        /\ s < t
        /\ seqs[s].kind = "remember" /\ seqs[t].kind = "remember"
        /\ seqs[s].key = seqs[t].key
        /\ seqs[s].invoked = 1 /\ seqs[s].promise.st = "resolved"
        /\ Expired(seqs[t].key)
        /\ calls[seqs[t].read].promise = Resolved(Null)
        /\ seqs[t].invoked = 1

\* C16: at most one rememberAll sequence is in progress per prefix; a
\* rememberAll made while a sequence of its prefix is in progress joins it and
\* holds its promise, so all those callers get the same result; no sequence
\* invokes the fallback more than once.
C16_SingleFlightPerPrefix ==
    /\ \A p \in Prefixes : Cardinality(LiveSeqs("rememberAll", p)) <= 1
    /\ \A s \in DOMAIN seqs : seqs[s].kind = "rememberAll" => seqs[s].invoked <= 1
    /\ \A r \in DOMAIN rcalls : rcalls[r].kind = "rememberAll" /\ rcalls[r].live # 0 =>
          /\ rcalls[r].seq = rcalls[r].live
          /\ Outcome(r) = seqs[rcalls[r].live].promise

\* Three rememberAll invocations of one prefix shared one sequence, which
\* invoked the fallback once and resolved with its two items.
C16_Witness ==
    \E s \in DOMAIN seqs :
        /\ seqs[s].kind = "rememberAll"
        /\ Cardinality(Joined(s)) = 3
        /\ seqs[s].invoked = 1
        /\ \A r \in Joined(s) : Outcome(r) = Resolved(<<ItemA, ItemB>>)

\* Sequence s, called with listTTL, is suspended at its check of the marker,
\* and the read of the marker was sent in exchange b, which is in flight.
MarkerCheck(b, s) ==
    /\ AtAll(s, "exists")
    /\ exchanges[b].status = "inflight"
    /\ \E i \in DOMAIN exchanges[b].queue :
          /\ exchanges[b].queue[i].cbs[1].id = seqs[s].read
          /\ \A j \in 1..(i - 1) :
                exchanges[b].queue[j].operation.key # listMarkerKey(seqs[s].key)

\* C17: with listTTL, the check of a rememberAll sequence finds the marker
\* exactly when the store holds it at the time the check is answered, and the
\* sequence invokes the fallback if and only if the check found no marker:
\* never while the marker is present, whatever has become of the members,
\* and again once the marker has expired.
C17_ProducerIffMarkerAbsent ==
    /\ [][\A b \in DOMAIN exchanges : \A s \in DOMAIN seqs :
            (MarkerCheck(b, s) /\ exchanges'[b].status = "ok")
            => calls'[seqs[s].read].promise =
                  IF store[listMarkerKey(seqs[s].key)].val # Nil
                  THEN Resolved(store[listMarkerKey(seqs[s].key)].val)
                  ELSE Resolved(Null)]_vars
    /\ [](\A s \in DOMAIN seqs :
            (/\ seqs[s].kind = "rememberAll" /\ seqs[s].listTTL # NoTtl
             /\ seqs[s].pc # "exists")
            => seqs[s].invoked =
                  IF calls[seqs[s].read].promise = Resolved(Null) THEN 1 ELSE 0)

\* After a bulk fetch, a call made while the marker was present did not
\* invoke the fallback although a member had expired, and the call after the
\* marker had expired invoked it again.
C17_Witness ==
    \E s, u, t \in DOMAIN seqs :
        /\ s < u /\ u < t
        /\ \A x \in {s, u, t} : seqs[x].kind = "rememberAll" /\ seqs[x].listTTL # NoTtl
        /\ seqs[s].invoked = 1 /\ seqs[s].promise = Resolved(<<ItemA, ItemB>>)
        /\ seqs[u].invoked = 0 /\ seqs[u].promise.st = "resolved"
        /\ Expired(ItemKey(seqs[u].key, ItemA))
        /\ Expired(listMarkerKey(seqs[t].key))
        /\ seqs[t].invoked = 1

\* The elements of a list.
Elements(list) == {list[i] : i \in DOMAIN list}

\* The sequences that invoked the fallback (the bulk fetches).
Fetches == {s \in DOMAIN seqs : seqs[s].kind = "rememberAll" /\ seqs[s].invoked = 1}

\* C18: with listTTL, a rememberAll that found the marker, after the one bulk
\* fetch that has been made (nothing has written or removed a member since),
\* resolves with exactly the items the fallback returned on that fetch: the
\* same items, each once, and nothing else.
C18_CachedListIsProducersList ==
    \A s, u \in DOMAIN seqs :
        (/\ Fetches = {s}
         /\ seqs[s].listTTL # NoTtl /\ seqs[s].promise.st = "resolved"
         /\ seqs[u].kind = "rememberAll" /\ seqs[u].key = seqs[s].key
         /\ seqs[u].listTTL # NoTtl /\ seqs[u].invoked = 0
         /\ seqs[u].promise.st = "resolved")
        => /\ Len(seqs[u].promise.res) = Len(seqs[s].promise.res)
           /\ Elements(seqs[u].promise.res) = Elements(seqs[s].promise.res)

\* C19: on a collection with a schema, a rememberAll with listTTL that finds
\* the marker present does not invoke the fallback and, unless a request of
\* its own fails at the transport, resolves.
C19_CollectionCachedListResolves ==
    \A u \in DOMAIN seqs :
        (/\ seqs[u].kind = "collection" /\ seqs[u].listTTL # NoTtl
         /\ calls[seqs[u].read].promise.st = "resolved"
         /\ calls[seqs[u].read].promise.res # Null
         /\ seqs[u].pc = "done")
        => /\ seqs[u].invoked = 0
           /\ \/ seqs[u].promise.st = "resolved"
              \/ seqs[u].promise.res \in TransportErrors

\* The invocations of get, set and delete a sequence has made.
CallsBy(s) == {c \in DOMAIN calls : calls[c].by = s}

\* C20: without listTTL, every rememberAll sequence invokes the fallback (once,
\* at its start, whatever the store holds), makes no get or set of its own
\* (so neither reads nor writes the marker), and when its writes are answered
\* the store holds every returned item under prefix + getKey(item) with the
\* given ttl, the marker is as it was, and the sequence resolves with the
\* fallback's list in the fallback's order.
C20_SimpleModeAlwaysFetches ==
    /\ [](\A s \in DOMAIN seqs :
            (seqs[s].kind = "rememberAll" /\ seqs[s].listTTL = NoTtl)
            => /\ seqs[s].invoked = 1
               /\ CallsBy(s) = {}
               /\ seqs[s].promise.st = "resolved" =>
                     seqs[s].promise.res = seqs[s].items)
    /\ [][\A s \in DOMAIN seqs :
            (/\ AtAll(s, "batch") /\ seqs[s].listTTL = NoTtl
             /\ seqs'[s].promise.st = "resolved")
            => /\ \A i \in DOMAIN seqs[s].items :
                     store'[ItemKey(seqs[s].key, seqs[s].items[i])] =
                        Entry(seqs[s].items[i], seqs[s].ttl)
               /\ store'[listMarkerKey(seqs[s].key)] = store[listMarkerKey(seqs[s].key)]
               /\ seqs'[s].promise.res = seqs[s].items]_vars

\* After a bulk fetch with listTTL had cached the list and set the marker, a
\* rememberAll without listTTL invoked the fallback, wrote its two items and
\* resolved with them.
C20_Witness ==
    \E s, t \in DOMAIN seqs :
        /\ s < t
        /\ seqs[s].kind = "rememberAll" /\ seqs[s].listTTL # NoTtl
        /\ seqs[s].promise.st = "resolved" /\ seqs[s].invoked = 1
        /\ seqs[t].kind = "rememberAll" /\ seqs[t].listTTL = NoTtl
        /\ seqs[t].invoked = 1
        /\ seqs[t].promise = Resolved(<<ItemA, ItemB>>)
        /\ store[ItemKey(seqs[t].key, ItemB)] = Entry(ItemB, seqs[t].ttl)
        /\ store[listMarkerKey(seqs[t].key)].val # Nil

\* C21: a rememberAll sequence whose fallback throws, with or without
\* listTTL, is rejected with the fallback's error at that very step, which
\* leaves the store, the pending queue and the requests as they were; the
\* sequence has posted no item and has made no set (so none of the marker).
C21_ProducerErrorPersistsNothing ==
    /\ [][\A s \in DOMAIN seqs :
            (AtAll(s, "fallback") /\ seqs'[s].pc = "done")
            => /\ seqs'[s].promise = Rejected(ProducerError)
               /\ store' = store
               /\ batchQueue' = batchQueue /\ exchanges' = exchanges]_vars
    /\ [](\A s \in DOMAIN seqs :
            (seqs[s].kind = "rememberAll" /\ seqs[s].promise = Rejected(ProducerError))
            => /\ seqs[s].invoked = 1
               /\ seqs[s].items = <<>>
               /\ {c \in CallsBy(s) : calls[c].op = "set"} = {})

\* The fallback threw in a sequence with listTTL and in one without, and the
\* store holds neither an item nor the marker.
C21_Witness ==
    \E s, t \in DOMAIN seqs :
        /\ seqs[s].kind = "rememberAll" /\ seqs[s].listTTL # NoTtl
        /\ seqs[t].kind = "rememberAll" /\ seqs[t].listTTL = NoTtl
        /\ seqs[s].promise = Rejected(ProducerError)
        /\ seqs[t].promise = Rejected(ProducerError)
        /\ ScanKeys(store, seqs[s].key) = {}

\* The place of invocation id in the request that carried it.
PlaceOf(id) == ItemOf(exchanges[ExchangeOf(id)].queue, id)

\* C22: a set of a key immediately followed, in the same cycle, by a delete
\* of that key is sent in the same request with the set right before the
\* delete; and when the store has run a request in which a set of a key is
\* followed by a delete of it with no later set of that key, it holds no entry
\* for the key.
C22_SetThenDeleteLeavesAbsent ==
    /\ [](\A c \in DOMAIN calls :
            (/\ c + 1 \in DOMAIN calls
             /\ calls[c].op = "set" /\ calls[c + 1].op = "delete"
             /\ calls[c].key = calls[c + 1].key /\ calls[c].cyc = calls[c + 1].cyc)
            => IF ExchangeOf(c) = 0
               THEN /\ ExchangeOf(c + 1) = 0
                    /\ ItemOf(batchQueue, c + 1) = ItemOf(batchQueue, c) + 1
               ELSE /\ ExchangeOf(c + 1) = ExchangeOf(c)
                    /\ PlaceOf(c + 1) = PlaceOf(c) + 1)
    /\ [][\A b \in DOMAIN exchanges : \A i \in DOMAIN exchanges[b].queue :
            LET queue == exchanges[b].queue
            IN  (/\ exchanges[b].status = "inflight" /\ exchanges'[b].status = "ok"
                 /\ i + 1 \in DOMAIN queue
                 /\ queue[i].operation.op = "set" /\ queue[i + 1].operation.op = "delete"
                 /\ queue[i].operation.key = queue[i + 1].operation.key
                 /\ \A j \in DOMAIN queue :
                       j > i + 1 /\ queue[j].operation.key = queue[i].operation.key
                       => queue[j].operation.op # "set")
                => store'[queue[i].operation.key] = NoEntry]_vars

\* A request with set then delete of the key the store held was answered,
\* and the store holds the key no more.
C22_Witness ==
    \E b \in DOMAIN exchanges :
        /\ exchanges[b].status = "ok"
        /\ Len(exchanges[b].queue) >= 2
        /\ exchanges[b].queue[1].operation = Operation("set", <<"k1">>, "v2", NoTtl)
        /\ exchanges[b].queue[2].operation = Operation("delete", <<"k1">>, Undef, NoTtl)
        /\ store[<<"k1">>] = NoEntry

\* The cycles of the invocations whose callbacks the entries of queue hold.
CyclesOf(queue) == {calls[id].cyc : id \in IdsOf(queue)}

\* C23: collapsing stays within one batch cycle: the entries of the pending
\* queue hold callbacks of the current cycle only, a request holds those of
\* its own cycle only and is never changed once flushed; so a get made after
\* the flush of an earlier get of the same key, answered or not, is in the
\* pending queue or in a later request, which holds a get of its own.
C23_NoCollapsingAcrossCycles ==
    /\ [](/\ CyclesOf(batchQueue) \subseteq {CurrentCycle}
          /\ \A b \in DOMAIN exchanges : CyclesOf(exchanges[b].queue) = {b}
          /\ \A c, d \in DOMAIN calls :
                (/\ calls[c].op = "get" /\ calls[d].op = "get"
                 /\ calls[c].key = calls[d].key
                 /\ calls[c].cyc < calls[d].cyc)
                => /\ ExchangeOf(c) = calls[c].cyc
                   /\ ExchangeOf(d) \in {0, calls[d].cyc}
                   /\ LET queue == IF ExchangeOf(d) = 0 THEN batchQueue
                                    ELSE exchanges[ExchangeOf(d)].queue
                      IN  /\ d \in IdsOf(queue)
                          /\ queue[ItemOf(queue, d)].operation.op = "get"
                          /\ queue[ItemOf(queue, d)].operation.key = calls[d].key)
    /\ [][\A b \in DOMAIN exchanges : exchanges'[b].queue = exchanges[b].queue]_vars

\* While the request with a get of a key was in flight, a second get of the
\* key was made and went out in a second request.
C23_Witness ==
    /\ Len(exchanges) = 2
    /\ exchanges[1].status = "inflight"
    /\ \E k \in Keys :
          /\ GetsOf(exchanges[1].queue, k) # {}
          /\ GetsOf(exchanges[2].queue, k) # {}

\* The pending queue and the queues of the requests.
AllQueues == {batchQueue} \cup {exchanges[b].queue : b \in DOMAIN exchanges}

\* The entries of a queue that hold a callback of invocation id.
EntriesOf(queue, id) ==
    {i \in DOMAIN queue : \E j \in DOMAIN queue[i].cbs : queue[i].cbs[j].id = id}

\* C24: set and delete are never merged: every set or delete invocation has
\* one entry of its own, with its operation and no callback but its own, in
\* the pending queue or in one request, whatever the other invocations of its
\* cycle are.
C24_WritesNeverMerged ==
    /\ \A queue \in AllQueues : \A i \in DOMAIN queue :
          queue[i].operation.op \in {"set", "delete"} => Len(queue[i].cbs) = 1
    /\ \A c \in DOMAIN calls : calls[c].op \in {"set", "delete"} =>
          LET queue == IF ExchangeOf(c) = 0 THEN batchQueue
                       ELSE exchanges[ExchangeOf(c)].queue
          IN  /\ Cardinality(EntriesOf(queue, c)) = 1
              /\ queue[ItemOf(queue, c)].operation =
                    Operation(calls[c].op, calls[c].key, calls[c].value, calls[c].ttl)
              /\ queue[ItemOf(queue, c)].cbs = <<Callback(c, FALSE)>>

\* One request carried the same set twice and then a delete.
C24_Witness ==
    \E b \in DOMAIN exchanges :
        /\ Len(exchanges[b].queue) = 3
        /\ exchanges[b].queue[1].operation.op = "set"
        /\ exchanges[b].queue[2].operation = exchanges[b].queue[1].operation
        /\ exchanges[b].queue[3].operation.op = "delete"

\* C25: an invocation of get, set or delete sends no request itself; at most
\* one flush is scheduled at any time, exactly when the flag is set, and one
\* is scheduled whenever the pending queue is not empty; an invocation leaves
\* exactly one flush scheduled, and only a flush that runs takes it away.
C25_OneFlushPerCycle ==
    /\ [](/\ microtasks <= 1
          /\ batchScheduled <=> (microtasks = 1)
          /\ batchQueue # <<>> => batchScheduled)
    /\ [][Len(calls') > Len(calls) =>
            /\ exchanges' = exchanges
            /\ microtasks' = 1
            /\ Len(batchQueue') >= Len(batchQueue)]_vars
    /\ [][microtasks' < microtasks =>
            /\ batchQueue' = <<>>
            /\ batchQueue # <<>> => Len(exchanges') = Len(exchanges) + 1]_vars

\* After the flush of the first cycle, two invocations wait in the queue
\* with one flush scheduled.
C25_Witness ==
    /\ Len(exchanges) = 1
    /\ Len(batchQueue) = 2
    /\ microtasks = 1

\* C26: a flush takes every entry it sends off the pending queue, and no step
\* puts one back, whether the request is answered or fails: no invocation is
\* both in the pending queue and in a request, a settled invocation is not in
\* the pending queue, and once every invocation made has settled the pending
\* queue is empty.
C26_FlushedEntriesLeaveQueue ==
    /\ \A b \in DOMAIN exchanges : IdsOf(batchQueue) \cap IdsOf(exchanges[b].queue) = {}
    /\ \A id \in IdsOf(batchQueue) : ~Settled(id)
    /\ (\A id \in DOMAIN calls : Settled(id)) => batchQueue = <<>>

\* Three invocations were made and all have settled, some in a request that
\* was answered and some in one that failed; the pending queue is empty.
C26_Witness ==
    /\ Len(calls) = 3
    /\ \A id \in DOMAIN calls : Settled(id)
    /\ \E b \in DOMAIN exchanges : exchanges[b].status = "ok"
    /\ \E b \in DOMAIN exchanges : exchanges[b].status = "failed"
    /\ batchQueue = <<>>

\* C27: a promise settles at most once (once settled it never changes), and
\* the callers attached to one queued read get the same outcome: all resolved
\* with the same value or all rejected with the same error.
C27_AttachedCallersSameOutcome ==
    /\ [][\A id \in DOMAIN calls :
            calls[id].promise.st # "pending" => calls'[id].promise = calls[id].promise]_vars
    /\ [](\A queue \in AllQueues : \A i \in DOMAIN queue :
            \A j, k \in DOMAIN queue[i].cbs :
                calls[queue[i].cbs[j].id].promise = calls[queue[i].cbs[k].id].promise)

\* C28: Collection.rememberAll is single-flight: a call made on a collection
\* while an earlier call on it has not settled starts no work of its own, so
\* the two together invoke the fallback at most once.
C28_CollectionSingleFlight ==
    \A r \in DOMAIN rcalls :
        (rcalls[r].kind = "collection" /\ rcalls[r].live # 0)
        => \/ rcalls[r].seq = rcalls[r].live
           \/ seqs[rcalls[r].live].invoked + seqs[rcalls[r].seq].invoked <= 1

\* C29: with a schema, the remember of a Value or Collection returns a
\* validated value on every path: what it resolves with is accepted by the
\* schema, and a cached value the schema rejects makes the call reject with
\* the validation error.
C29_TypedRememberValidatesHit ==
    \A s \in DOMAIN seqs : seqs[s].kind = "remember" =>
        /\ seqs[s].promise.st = "resolved" => seqs[s].promise.res \in Schema
        /\ (/\ seqs[s].pc # "get"
            /\ calls[seqs[s].read].promise.st = "resolved"
            /\ calls[seqs[s].read].promise.res \notin Schema \cup {Null})
           => seqs[s].promise = Rejected(ValidationError)

\* The set invocations of a Value or Collection that validation rejected.
RejectedSets == {r \in DOMAIN rcalls : rcalls[r].kind = "set"}

\* C30: with a schema, the set of a Value or Collection rejects a value that
\* fails validation before anything is enqueued: the step in which the call is
\* rejected changes neither the pending queue, nor the flush that is
\* scheduled, nor the invocations of the client, nor the requests, nor the
\* store; so no set operation of any queue or request carries a value the
\* schema rejects, and the store holds no such value but the one that was
\* written without the schema.
C30_InvalidSetEnqueuesNothing ==
    /\ [][RejectedSets' # RejectedSets => UNCHANGED <<engineVars, netVars>>]_vars
    /\ [](/\ \A queue \in AllQueues : \A i \in DOMAIN queue :
                queue[i].operation.op = "set" => queue[i].operation.value \in Schema
          /\ \A c \in DOMAIN calls : calls[c].op = "set" => calls[c].value \in Schema
          /\ \A k \in Keys : store[k].val \notin Schema \cup {Nil}
                => /\ k = <<"k1">> /\ store[k] = Entry(OldValue, NoTtl)
                   /\ \A b \in DOMAIN exchanges : \A i \in DOMAIN exchanges[b].queue :
                         (/\ exchanges[b].status = "ok"
                          /\ exchanges[b].queue[i].operation.key = k)
                         => exchanges[b].queue[i].operation.op = "get")

\* A set of k2 was rejected by validation and a later set of k2, of a value
\* the schema accepts, was answered: the store holds the accepted value.
C30_Witness ==
    /\ \E r \in RejectedSets : rcalls[r].key = <<"k2">>
    /\ \E c \in DOMAIN calls :
          /\ calls[c].op = "set" /\ calls[c].key = <<"k2">> /\ calls[c].by = 0
          /\ calls[c].promise.st = "resolved"
    /\ store[<<"k2">>].val \in Schema
    /\ Len(exchanges) = 1

\* The invocations a queue, a registry or a sequence of an instance refers
\* to are invocations of that instance.
OwnState(inst) ==
    /\ \A queue \in {inst.batchQueue} \cup {inst.exchanges[b].queue : b \in DOMAIN inst.exchanges} :
          \A i \in DOMAIN queue :
             /\ \A j \in DOMAIN queue[i].cbs : queue[i].cbs[j].id \in DOMAIN inst.calls
             /\ inst.calls[queue[i].cbs[1].id].op = queue[i].operation.op
             /\ inst.calls[queue[i].cbs[1].id].key = queue[i].operation.key
    /\ \A k \in Keys : inst.rememberPromises[k] # 0 =>
          /\ inst.rememberPromises[k] \in DOMAIN inst.seqs
          /\ inst.seqs[inst.rememberPromises[k]].key = k
    /\ \A r \in DOMAIN inst.rcalls : inst.rcalls[r].seq \in DOMAIN inst.seqs

\* The number of operations an instance has enqueued or sent.
Enqueued(inst) ==
    Len(inst.batchQueue)
    + Cardinality({<<b, i>> \in (DOMAIN inst.exchanges) \X (1..(2 * MaxInstanceCalls)) :
                     i \in DOMAIN inst.exchanges[b].queue})

\* C31: the pending queue and the registries belong to one instance: a step
\* of one instance leaves every field of the other instance unchanged, what
\* an instance's queue, requests and registries hold are its own invocations
\* and sequences, every operation an instance sends was enqueued on it, and
\* the first remember of a key on an instance starts a sequence of its own
\* whatever the other instance has in flight.
C31_StatePerInstance ==
    /\ [][other'.id = other.id => other' = other]_vars
    /\ [][other'.id # other.id => /\ other' = InstanceFields
                                  /\ InstanceFields' = other]_vars
    /\ [](/\ OwnState(other) /\ OwnState(InstanceFields)
          /\ \A inst \in {other, InstanceFields} :
                /\ Enqueued(inst) = Len(inst.calls)
                /\ \A r \in DOMAIN inst.rcalls :
                      (\A q \in 1..(r - 1) : inst.rcalls[q].key # inst.rcalls[r].key)
                      => inst.rcalls[r].live = 0)

\* Both instances have a remember of k2 in flight, each with a sequence of
\* its own that invoked its fallback, and each has sent one request.
C31_Witness ==
    /\ \E s \in DOMAIN seqs : seqs[s].key = <<"k2">> /\ seqs[s].pc = "fallback"
    /\ \E s \in DOMAIN other.seqs :
          other.seqs[s].key = <<"k2">> /\ other.seqs[s].pc = "fallback"
    /\ Len(exchanges) = 1 /\ Len(other.exchanges) = 1
    /\ rememberPromises[<<"k2">>] # 0 /\ other.rememberPromises[<<"k2">>] # 0

\* C32: single-flight is per key: the registry entries of two keys are
\* different sequences, each of its own key, and every caller holds the
\* promise of a sequence of its own key; a sequence invokes the fallback of
\* its key exactly once when its read found nothing and never otherwise, and
\* resolves to the value of its own key: what its fallback returned, or what
\* the store held for the key.
C32_SingleFlightIsPerKey ==
    /\ \A k \in Keys : rememberPromises[k] # 0 =>
          /\ seqs[rememberPromises[k]].key = k
          /\ \A j \in Keys \ {k} : rememberPromises[j] # rememberPromises[k]
    /\ \A r \in DOMAIN rcalls : seqs[rcalls[r].seq].key = rcalls[r].key
    /\ \A s \in DOMAIN seqs :
          /\ seqs[s].invoked <= 1
          /\ calls[seqs[s].read].key = seqs[s].key
          /\ (seqs[s].pc # "get" /\ calls[seqs[s].read].promise = Resolved(Null))
                => seqs[s].invoked = 1
          /\ (seqs[s].promise.st = "resolved" /\ seqs[s].invoked = 1)
                => seqs[s].promise.res = fallbackOf(seqs[s].key)
          /\ (seqs[s].promise.st = "resolved" /\ seqs[s].invoked = 0)
                => /\ seqs[s].promise.res = calls[seqs[s].read].promise.res
                   /\ \/ seqs[s].promise.res = fallbackOf(seqs[s].key)
                      \/ seqs[s].key = <<"k1">> /\ seqs[s].promise.res = OldValue

\* Two callers of k1 and two of k2 were in flight together: each pair shared
\* one sequence, each sequence invoked its fallback once, and each resolved
\* to the value of its key.
C32_Witness ==
    \E s, t \in DOMAIN seqs :
        /\ seqs[s].key = <<"k1">> /\ seqs[t].key = <<"k2">>
        /\ Cardinality(Joined(s)) = 2 /\ Cardinality(Joined(t)) = 2
        /\ calls[seqs[s].read].cyc = calls[seqs[t].read].cyc
        /\ seqs[s].invoked = 1 /\ seqs[t].invoked = 1
        /\ seqs[s].promise = Resolved("key 1")
        /\ seqs[t].promise = Resolved("key 2")

\* The set invocations of the marker of a prefix.
MarkerSets(prefix) ==
    {c \in DOMAIN calls : calls[c].op = "set" /\ calls[c].key = listMarkerKey(prefix)}

\* Sequence s, with listTTL, has called its fallback, which returned, and its
\* post of the items was answered.
BulkWritten(s) ==
    /\ seqs[s].kind = "rememberAll" /\ seqs[s].listTTL # NoTtl
    /\ seqs[s].invoked = 1
    /\ seqs[s].pc \in {"marker", "done"}
    /\ seqs[s].promise # Rejected(ProducerError)

\* C33: with listTTL the marker is set only in the step in which the post of
\* the items is answered, by a sequence whose fallback has returned; a
\* sequence that ends at its fallback or at its post makes no set and changes
\* nothing at the store; so whenever the store holds the marker, a sequence
\* of the prefix fetched the list, had all its items written, and then had
\* its set of the marker answered; the store holds those items.
C33_MarkerOnlyAfterItemsWritten ==
    /\ [][\A p \in Prefixes : MarkerSets(p)' # MarkerSets(p) =>
            \E s \in DOMAIN seqs :
                /\ AtAll(s, "batch") /\ seqs[s].key = p /\ seqs[s].invoked = 1
                /\ seqs'[s].pc = "marker"
                /\ MarkerSets(p)' = MarkerSets(p) \cup {Len(calls')}
                /\ calls'[Len(calls')].by = s
                /\ \A i \in DOMAIN seqs[s].items :
                      store'[ItemKey(p, seqs[s].items[i])].val = seqs[s].items[i]]_vars
    /\ [][\A s \in DOMAIN seqs :
            (/\ AtAll(s, "fallback") \/ AtAll(s, "batch")
             /\ seqs[s].listTTL # NoTtl /\ seqs'[s].pc = "done")
            => /\ seqs'[s].promise.st = "rejected"
               /\ calls' = calls /\ batchQueue' = batchQueue /\ store' = store]_vars
    /\ [](\A p \in Prefixes :
            /\ \A c \in MarkerSets(p) :
                  /\ calls[c].by \in DOMAIN seqs
                  /\ BulkWritten(calls[c].by) /\ seqs[calls[c].by].key = p
            /\ store[listMarkerKey(p)].val # Nil =>
                  \E c \in MarkerSets(p) :
                      /\ ExchangeOf(c) # 0
                      /\ exchanges[ExchangeOf(c)].status = "ok"
                      /\ \A i \in DOMAIN seqs[calls[c].by].items :
                            store[ItemKey(p, seqs[calls[c].by].items[i])].val
                               = seqs[calls[c].by].items[i])

\* The store holds the marker and the two items of the sequence that set it;
\* another sequence with listTTL ended at its post, and set no marker.
C33_Witness ==
    \E s, t \in DOMAIN seqs :
        /\ s # t
        /\ BulkWritten(s) /\ seqs[s].items = <<ItemA, ItemB>>
        /\ seqs[s].promise.st = "resolved"
        /\ store[listMarkerKey(seqs[s].key)].val # Nil
        /\ store[ItemKey(seqs[s].key, ItemB)].val = ItemB
        /\ seqs[t].kind = "rememberAll" /\ seqs[t].listTTL # NoTtl
        /\ seqs[t].invoked = 1 /\ seqs[t].promise.res \in TransportErrors
        /\ SetsBy(t) = {}

\* C34: operations issued one after another, each awaited before the next,
\* are never batched together: the pending queue never holds more than one
\* operation, every request carries exactly one operation with one callback,
\* and once the N operations are settled N requests were sent, the n-th with
\* the n-th operation.
C34_SequentialNeverBatched ==
    /\ Len(batchQueue) <= 1
    /\ Len(exchanges) + Len(batchQueue) = Len(calls)
    /\ \A b \in DOMAIN exchanges :
          /\ Len(exchanges[b].queue) = 1
          /\ exchanges[b].queue[1].cbs = <<Callback(b, calls[b].op = "get")>>
          /\ exchanges[b].queue[1].operation =
                Operation(calls[b].op, calls[b].key, calls[b].value, calls[b].ttl)
    /\ (\A c \in DOMAIN calls : calls[c].promise.st # "pending")
          => Len(exchanges) = Len(calls)

\* Three operations were issued and settled, and three requests were sent.
C34_Witness ==
    /\ Len(calls) = MaxSequential
    /\ \A c \in DOMAIN calls : calls[c].promise.st = "resolved"
    /\ calls[1].op = "set" /\ calls[2].op = "set" /\ calls[3].op = "get"
    /\ calls[1].key = calls[3].key
    /\ Len(exchanges) = MaxSequential

\* The places of a list that hold an item of id k.
PlacesOf(items, k) == {i \in DOMAIN items : IdOf(items[i]) = k}
Last(S) == CHOOSE i \in S : \A j \in S : j <= i

\* C35: in the result of a rememberAll, getBy(k) is the last item of the
\* result's items whose id is k, and undefined when the items hold none:
\* whatever the store or an earlier result holds for k.
C35_GetByFindsLastItemOfKey ==
    \A s \in DOMAIN seqs :
        (seqs[s].kind = "rememberAll" /\ seqs[s].promise.st = "resolved") =>
            LET items == seqs[s].promise.res
            IN  \A k \in Ids \ {Undef} :
                   IF PlacesOf(items, k) = {}
                   THEN getBy(items, k) = Undef
                   ELSE /\ getBy(items, k) = items[Last(PlacesOf(items, k))]
                        /\ IdOf(getBy(items, k)) = k

\* A result holds item b and then, under the same id, its second version, and
\* getBy finds the second; a later result holds only item a, and its getBy
\* finds nothing for b although the store holds an item under that id.
C35_Witness ==
    \E s, t \in DOMAIN seqs :
        /\ s < t
        /\ seqs[s].promise = Resolved(<<ItemB, ItemA, ItemBAgain>>)
        /\ getBy(seqs[s].promise.res, "b") = ItemBAgain
        /\ seqs[t].promise = Resolved(<<ItemA>>)
        /\ getBy(seqs[t].promise.res, "b") = Undef
        /\ store[ItemKey(seqs[t].key, ItemB)].val = ItemBAgain

\* C36: a request makes at most maxRetries + 1 attempts; an attempt is
\* followed by another only when it ended with a network error; an attempt
\* that ended with a timeout or an error answer is the last, and the request
\* then rejects with the timeout error or the error of the answer; a request
\* whose last attempt ended with a network error rejects with a connection
\* error.
C36_RetryOnlyAfterNetworkError ==
    /\ Len(request.attempts) <= request.maxRetries + 1
    /\ \A i \in DOMAIN request.attempts :
          (i < Len(request.attempts) \/ request.pc = "sleep")
          => request.attempts[i] = "network"
    /\ request.pc = "done" =>
          LET last == request.attempts[Len(request.attempts)]
          IN  /\ last = "timeout" => request.promise = Rejected(LixTimeoutError.name)
              /\ last = "response" =>
                    /\ request.promise.st = "rejected"
                    /\ request.promise.res \in {LixAuthError.name, "LixServerError"}
              /\ last = "network" =>
                    /\ request.promise = Rejected(LixConnectionError.name)
                    /\ Len(request.attempts) = request.maxRetries + 1

\* C40: the wait before retry number n (n = 0 for the first retry) is
\* retryDelay * 2^n: the first wait is retryDelay and each later wait is
\* twice the wait before it; one wait is made per retry.
C40_RetryWaitDoubles ==
    /\ Len(request.waits) = request.retryCount + (IF request.pc = "sleep" THEN 1 ELSE 0)
    /\ \A i \in DOMAIN request.waits :
          /\ i = 1 => request.waits[i] = request.retryDelay
          /\ i > 1 => request.waits[i] = 2 * request.waits[i - 1]

\* A request with retryDelay 100 slept 100, 200 and 400 before its retries.
C40_Witness ==
    /\ request.retryDelay = 100
    /\ request.waits = <<100, 200, 400>>
    /\ request.retryCount = 3

\* C37: a flush is scheduled exactly when the pending queue is not empty, so
\* every invocation that is not settled waits in the queue with a flush
\* scheduled or is in a request in flight; a flush that runs finds at least
\* one operation and sends the queue, and no request is empty.
C37_NoStrandedNoEmptyFlush ==
    /\ [](/\ batchQueue # <<>> <=> microtasks > 0
          /\ batchQueue # <<>> => batchScheduled
          /\ \A queue \in AllQueues : \A i \in DOMAIN queue : Len(queue[i].cbs) >= 1
          /\ \A b \in DOMAIN exchanges : Len(exchanges[b].queue) >= 1
          /\ \A id \in DOMAIN calls : ~Settled(id) =>
                \/ id \in IdsOf(batchQueue)
                \/ \E b \in InFlight : id \in IdsOf(exchanges[b].queue))
    /\ [][microtasks' < microtasks =>
            /\ Len(batchQueue) >= 1
            /\ exchanges' = Append(exchanges, exchanges'[Len(exchanges')])
            /\ exchanges'[Len(exchanges')].queue = batchQueue]_vars

\* Two flushes ran, each with one operation, and a third operation waits in
\* the queue with a flush scheduled.
C37_Witness ==
    /\ Len(exchanges) = 2
    /\ Len(exchanges[1].queue) = 1 /\ Len(exchanges[2].queue) = 1
    /\ Len(batchQueue) = 1
    /\ microtasks = 1 /\ batchScheduled

\* Invocation c is a get made, in the cycle of invocation d, after d, a set
\* of the same key, with no invocation on that key between them.
GetRightAfterSet(d, c) ==
    /\ d < c
    /\ calls[d].op = "set" /\ calls[c].op = "get"
    /\ calls[d].key = calls[c].key /\ calls[d].cyc = calls[c].cyc
    /\ \A e \in DOMAIN calls : (d < e /\ e < c) => calls[e].key # calls[c].key

\* C38: a get resolves to the value its key has at the point in call order
\* where it was made: a get of a key made right after a set of that key in
\* the same cycle resolves, when it resolves, to the value of that set,
\* whether or not an earlier get of the key is queued.
C38_GetSeesEarlierWriteOfCycle ==
    \A d, c \in DOMAIN calls :
        (GetRightAfterSet(d, c) /\ calls[c].promise.st = "resolved")
        => calls[c].promise.res = calls[d].value

\* C39: requests complete in any order, and the answer or failure of a
\* request settles every handle of its own snapshot and nothing else: the
\* handles of the other requests and of the pending queue, the pending queue
\* and the other requests are as they were; the snapshots of two requests
\* share no handle.
C39_CompletionSettlesOwnSnapshotOnly ==
    /\ [][\A b \in DOMAIN exchanges :
            (exchanges[b].status = "inflight" /\ exchanges'[b].status # "inflight")
            => /\ \A id \in IdsOf(exchanges[b].queue) : calls'[id].promise.st # "pending"
               /\ \A id \in DOMAIN calls \ IdsOf(exchanges[b].queue) :
                     calls'[id] = calls[id]
               /\ batchQueue' = batchQueue
               /\ \A a \in DOMAIN exchanges \ {b} : exchanges'[a] = exchanges[a]]_vars
    /\ [](\A a, b \in DOMAIN exchanges :
            a # b => IdsOf(exchanges[a].queue) \cap IdsOf(exchanges[b].queue) = {})

\* Two requests were in flight together and the second was answered first:
\* its handle is settled while the handle of the first request and the one
\* in the pending queue are pending.
C39_Witness ==
    /\ Len(exchanges) = 2
    /\ exchanges[1].status = "inflight" /\ exchanges[2].status = "ok"
    /\ \A id \in IdsOf(exchanges[2].queue) : calls[id].promise.st = "resolved"
    /\ \A id \in IdsOf(exchanges[1].queue) : calls[id].promise.st = "pending"
    /\ batchQueue # <<>>
    /\ \A id \in IdsOf(batchQueue) : calls[id].promise.st = "pending"

\* ------------------------------------------------------------ specification
Start(n) ==
    /\ batchQueue = <<>>
    /\ batchScheduled = FALSE
    /\ microtasks = 0
    /\ exchanges = <<>>
    /\ calls = <<>>
    /\ store = [k \in AllKeys |->
                  IF k = <<"k1">> THEN Entry(OldValue, NoTtl) ELSE NoEntry]
    /\ absent \in {Null, Undef}
    /\ rememberPromises = [k \in Keys |-> 0]
    /\ rememberAllPromises = [p \in Prefixes |-> 0]
    /\ seqs = <<>>
    /\ rcalls = <<>>
    /\ budget = n
    /\ other = NewInstance(2)
    /\ request = NoRequest

Init == Start(MaxCalls)

\* The steps of the engine and of the network under it.
EngineSteps ==
    \/ flushBatch
    \/ \E b \in DOMAIN exchanges : BatchResponse(b)
    \/ \E b \in DOMAIN exchanges, e \in TransportErrors : BatchTransportFailure(b, e)

\* The engine alone: plain get, set and delete.
Next ==
    \/ \E k \in Keys, v \in Values : set(k, v, NoTtl)
    \/ \E k \in Keys : get(k)
    \/ \E k \in Keys : delete(k)
    \/ EngineSteps

Spec == Init /\ [][Next]_vars

\* The same engine against a store that can also fail on one operation.
NextStoreFailure ==
    \/ Next
    \/ \E b \in DOMAIN exchanges : \E n \in DOMAIN exchanges[b].queue :
          BatchStoreFailure(b, n)

SpecStoreFailure == Start(MaxCalls) /\ [][NextStoreFailure]_vars

\* remember on top of the engine, with plain reads beside it.
RememberSteps ==
    \/ \E k \in Keys : remember(k, 1)
    \/ \E s \in DOMAIN seqs : rememberAfterGet(s)
    \/ \E s \in DOMAIN seqs, v \in ProducerValues : rememberFallbackReturns(s, v)
    \/ \E s \in DOMAIN seqs : rememberFallbackThrows(s)
    \/ \E s \in DOMAIN seqs : rememberAfterSet(s)

NextRemember ==
    \/ RememberSteps
    \/ \E k \in Keys : get(k)
    \/ EngineSteps

SpecRemember == Start(MaxRemember) /\ [][NextRemember]_vars

\* The same, with entries that expire at the store.
NextRememberExpire ==
    \/ NextRemember
    \/ \E k \in Keys : Expire(k)

SpecRememberExpire == Start(MaxRemember) /\ [][NextRememberExpire]_vars

\* rememberAll on top of the engine, in both modes.
RememberAllSteps ==
    \/ \E p \in Prefixes, l \in TTLs : rememberAll(p, 1, l)
    \/ \E s \in DOMAIN seqs : rememberAllAfterExists(s)
    \/ \E s \in DOMAIN seqs : rememberAllScanResponse(s)
    \/ \E s \in DOMAIN seqs, e \in TransportErrors : rememberAllRequestFails(s, e)
    \/ \E s \in DOMAIN seqs, l \in ProducerLists : rememberAllFallbackReturns(s, l)
    \/ \E s \in DOMAIN seqs : rememberAllFallbackThrows(s)
    \/ \E s \in DOMAIN seqs : rememberAllBatchResponse(s)
    \/ \E s \in DOMAIN seqs : rememberAllAfterMarker(s)

NextRememberAll ==
    \/ RememberAllSteps
    \/ EngineSteps

SpecRememberAll == Start(MaxRememberAll) /\ [][NextRememberAll]_vars

\* The same, with entries (members and markers) that expire at the store.
NextRememberAllExpire ==
    \/ NextRememberAll
    \/ \E k \in AllKeys : Expire(k)

SpecRememberAllExpire == Start(MaxRememberAll) /\ [][NextRememberAllExpire]_vars

\* Collection.rememberAll on top of the engine, on a collection with a schema.
NextCollection ==
    \/ \E p \in Prefixes, l \in TTLs : CollectionRememberAll(p, 1, l)
    \/ \E s \in DOMAIN seqs : CollectionAfterExists(s)
    \/ \E s \in DOMAIN seqs : CollectionScanResponse(s)
    \/ \E s \in DOMAIN seqs, e \in TransportErrors : CollectionRequestFails(s, e)
    \/ \E s \in DOMAIN seqs, l \in CollectionLists : CollectionFallbackReturns(s, l)
    \/ \E s \in DOMAIN seqs : CollectionFallbackThrows(s)
    \/ \E s \in DOMAIN seqs : CollectionBatchResponse(s)
    \/ \E s \in DOMAIN seqs : CollectionAfterMarker(s)
    \/ EngineSteps

SpecCollection == Start(MaxCollection) /\ [][NextCollection]_vars

\* The wrappers with a schema on top of the engine: set and remember of a
\* Value or Collection.  The store holds, for one key, a value that was
\* written without the schema.
NextTyped ==
    \/ \E k \in Keys, v \in Values \cup {OldValue} : ValueSet(k, v)
    \/ \E k \in Keys : ValueRemember(k, 1)
    \/ \E s \in DOMAIN seqs : rememberAfterGet(s)
    \/ \E s \in DOMAIN seqs, v \in ProducerValues : ValueFallbackReturns(s, v)
    \/ \E s \in DOMAIN seqs : rememberFallbackThrows(s)
    \/ \E s \in DOMAIN seqs : rememberAfterSet(s)
    \/ EngineSteps

SpecTyped == Start(MaxTyped) /\ [][NextTyped]_vars

\* Two LixCache instances against one store.  The variables of the engine
\* hold the fields of the instance that runs, `other` those of the instance
\* that does not; the two take turns.
\* A turn with the registries kept in one place for both instances.
SwitchSharedRegistries ==
    /\ other' = InstanceFields
    /\ batchQueue' = other.batchQueue
    /\ batchScheduled' = other.batchScheduled
    /\ microtasks' = other.microtasks
    /\ exchanges' = other.exchanges
    /\ calls' = other.calls
    /\ seqs' = other.seqs
    /\ rcalls' = other.rcalls
    /\ UNCHANGED <<rememberPromises, rememberAllPromises, store, absent, budget, request>>

\* The other instance runs: every field declared on the class
\* (client.ts:43-55) is its own; the store is the one both talk to.
Switch ==
    /\ other' = InstanceFields
    /\ batchQueue' = other.batchQueue
    /\ batchScheduled' = other.batchScheduled
    /\ microtasks' = other.microtasks
    /\ exchanges' = other.exchanges
    /\ calls' = other.calls
    /\ rememberPromises' = other.rememberPromises
    /\ rememberAllPromises' = other.rememberAllPromises
    /\ seqs' = other.seqs
    /\ rcalls' = other.rcalls
    /\ UNCHANGED <<store, absent, budget, request>>

NextInstances ==
    \/ \E k \in Keys, v \in Values : set(k, v, NoTtl)
    \/ \E k \in Keys : remember(k, 1)
    \/ \E s \in DOMAIN seqs : rememberAfterGet(s)
    \/ \E s \in DOMAIN seqs, v \in Values : rememberFallbackReturns(s, v)
    \/ \E s \in DOMAIN seqs : rememberAfterSet(s)
    \/ flushBatch
    \/ \E b \in DOMAIN exchanges : BatchResponse(b)
    \/ Switch

SpecInstances == Start(MaxInstanceCalls) /\ [][NextInstances]_vars

\* remember called with one fallback per key (remember.test.ts:116-137): the
\* fallback of a key returns the value of that key.  A delete makes the key
\* the store holds a miss.
NextPerKey ==
    \/ \E k \in Keys : remember(k, 1)
    \/ \E s \in DOMAIN seqs : rememberAfterGet(s)
    \/ \E s \in DOMAIN seqs : rememberFallbackReturns(s, fallbackOf(seqs[s].key))
    \/ \E s \in DOMAIN seqs : rememberAfterSet(s)
    \/ delete(<<"k1">>)
    \/ flushBatch
    \/ \E b \in DOMAIN exchanges : BatchResponse(b)

SpecPerKey == Start(MaxPerKey) /\ [][NextPerKey]_vars

\* `await cache.set(...)` before the next call (part_011:141-144): the
\* application goes on once the promise of every call it made is settled.
Awaited == \A c \in DOMAIN calls : calls[c].promise.st # "pending"

\* An application that awaits each operation before it issues the next.
NextSequential ==
    \/ Awaited /\ \E k \in Keys, v \in Values : set(k, v, NoTtl)
    \/ Awaited /\ \E k \in Keys : get(k)
    \/ Awaited /\ \E k \in Keys : delete(k)
    \/ EngineSteps

SpecSequential == Start(MaxSequential) /\ [][NextSequential]_vars

\* rememberAll, in both modes, with fallbacks that return lists in which an
\* id can occur more than once.
NextGetBy ==
    \/ \E p \in Prefixes, l \in TTLs : rememberAll(p, 1, l)
    \/ \E s \in DOMAIN seqs : rememberAllAfterExists(s)
    \/ \E s \in DOMAIN seqs : rememberAllScanResponse(s)
    \/ \E s \in DOMAIN seqs, l \in IndexLists : rememberAllFallbackReturns(s, l)
    \/ \E s \in DOMAIN seqs : rememberAllBatchResponse(s)
    \/ \E s \in DOMAIN seqs : rememberAllAfterMarker(s)
    \/ flushBatch
    \/ \E b \in DOMAIN exchanges : BatchResponse(b)

SpecGetBy == Start(MaxGetBy) /\ [][NextGetBy]_vars

\* One request of the HttpClient, for every configuration.
NextHttp ==
    \/ \E n \in RetryLimits, d \in RetryDelays : httpRequest(n, d)
    \/ fetchOk
    \/ \E status \in Statuses, body \in Bodies : fetchErrorResponse(status, body)
    \/ fetchAborted
    \/ fetchFails
    \/ retry

SpecHttp == Start(0) /\ [][NextHttp]_vars

\* remember and rememberAll side by side.
NextSingleFlight ==
    \/ RememberSteps
    \/ RememberAllSteps
    \/ EngineSteps

SpecSingleFlight == Start(MaxSingleFlight) /\ [][NextSingleFlight]_vars

====
